---- MODULE Spec2Model ----
(***************************************************************************)
(* A model of the rendering engine of ascii-diagrams: the logical grid to  *)
(* canvas projection (render/canvas_space.rs), the drawing surface         *)
(* (render/canvas.rs), the edge router (render/lines.rs) and the renderer  *)
(* (render/mod.rs).  Coordinates are 0-based as in the source; a canvas is *)
(* a function  row index -> (column index -> byte),  bytes are one-letter  *)
(* strings.                                                                *)
(***************************************************************************)
EXTENDS Integers, Sequences, FiniteSets, TLC

(***************************************************************************)
(* Bounds of the model.                                                    *)
(***************************************************************************)
\* the largest max_tweaks option drawn by Init
MaxTweaks == 2
\* the longest edge list drawn by Init
MaxEdges == 3
\* the scores compared against each other have fields up to this value
MaxField == 2

Max(a, b) == IF a >= b THEN a ELSE b
Min(a, b) == IF a <= b THEN a ELSE b
Abs(a) == IF a < 0 THEN -a ELSE a
SetMax(S) == CHOOSE m \in S : \A o \in S : o <= m
SetMin(S) == CHOOSE m \in S : \A o \in S : m <= o

\* lib.rs minmax
minmax(a, b) == IF a <= b THEN <<a, b>> ELSE <<b, a>>

(***************************************************************************)
(* Block (lib.rs).  The raw text is a sequence of bytes: "t" is a printable*)
(* graphic byte, " " a space, "n" the line feed and "c" a control byte.    *)
(***************************************************************************)
RECURSIVE split_text(_, _)
\* the loop of Block::new: `acc` is `text`, whose last line is being filled
split_text(t, acc) ==
    IF t = <<>> THEN acc
    ELSE LET c == Head(t)
             k == Len(acc)
         IN  IF c = "n" THEN split_text(Tail(t), Append(acc, <<>>))
             ELSE IF c = " " \/ c = "t"
                  THEN split_text(Tail(t), [acc EXCEPT ![k] = Append(@, c)])
                  ELSE split_text(Tail(t), acc)

BlockNew(pos, t) ==
    LET text == split_text(t, << <<>> >>)
    IN  [row |-> pos[1], column |-> pos[2], text |-> text,
         text_width |-> SetMax({Len(text[i]) : i \in 1..Len(text)}),
         text_height |-> Len(text)]

(***************************************************************************)
(* CanvasSpace (render/canvas_space.rs).  `boxes` is a non-empty sequence  *)
(* of blocks, `cfg` the RenderOptions record.                              *)
(***************************************************************************)
\* the sizing with the padding counted on one side of the text only
CanvasSpaceNew_padded_once(boxes, cfg) ==
    LET idx == 1..Len(boxes)
        \* the two loops over the boxes, then the origins and the canvas size
        Build(min_column, min_row, width, height) ==
            LET Origins(columns_width, rows_height) ==
                    LET columns_xs[x \in 0..(width - 1)] ==
                            IF x = 0 THEN cfg.hmargin
                            ELSE columns_xs[x - 1] + columns_width[x - 1] + cfg.hmargin
                        rows_ys[y \in 0..(height - 1)] ==
                            IF y = 0 THEN cfg.vmargin
                            ELSE rows_ys[y - 1] + rows_height[y - 1] + cfg.vmargin
                        Make(xs, ys) ==
                            [min_column |-> min_column, min_row |-> min_row,
                             columns_xs |-> xs, columns_width |-> columns_width,
                             rows_ys |-> ys, rows_height |-> rows_height,
                             blocks_map |-> [r \in 0..(height - 1) |->
                                 [c \in 0..(width - 1) |->
                                     \E i \in idx : /\ boxes[i].row - min_row = r
                                                    /\ boxes[i].column - min_column = c]],
                             canvas_width |->
                                 xs[width - 1] + columns_width[width - 1] + cfg.hmargin,
                             canvas_height |->
                                 ys[height - 1] + rows_height[height - 1] + cfg.vmargin,
                             render_cfg |-> cfg]
                    IN  Make(columns_xs, rows_ys)
            IN  Origins(
                    [c \in 0..(width - 1) |->
                        SetMax({0} \cup {2 + boxes[i].text_width + cfg.padding :
                                   i \in {j \in idx : boxes[j].column - min_column = c}})],
                    [r \in 0..(height - 1) |->
                        SetMax({0} \cup {2 + boxes[i].text_height + cfg.padding * 2 :
                                   i \in {j \in idx : boxes[j].row - min_row = r}})])
    IN  Build(SetMin({boxes[i].column : i \in idx}),
              SetMin({boxes[i].row : i \in idx}),
              1 + (SetMax({boxes[i].column : i \in idx}) - SetMin({boxes[i].column : i \in idx})),
              1 + (SetMax({boxes[i].row : i \in idx}) - SetMin({boxes[i].row : i \in idx})))

CanvasSpaceNew(boxes, cfg) ==
    LET idx == 1..Len(boxes)
        \* the two loops over the boxes, then the origins and the canvas size
        Build(min_column, min_row, width, height) ==
            LET Origins(columns_width, rows_height) ==
                    LET columns_xs[x \in 0..(width - 1)] ==
                            IF x = 0 THEN cfg.hmargin
                            ELSE columns_xs[x - 1] + columns_width[x - 1] + cfg.hmargin
                        rows_ys[y \in 0..(height - 1)] ==
                            IF y = 0 THEN cfg.vmargin
                            ELSE rows_ys[y - 1] + rows_height[y - 1] + cfg.vmargin
                        Make(xs, ys) ==
                            [min_column |-> min_column, min_row |-> min_row,
                             columns_xs |-> xs, columns_width |-> columns_width,
                             rows_ys |-> ys, rows_height |-> rows_height,
                             blocks_map |-> [r \in 0..(height - 1) |->
                                 [c \in 0..(width - 1) |->
                                     \E i \in idx : /\ boxes[i].row - min_row = r
                                                    /\ boxes[i].column - min_column = c]],
                             canvas_width |->
                                 xs[width - 1] + columns_width[width - 1] + cfg.hmargin,
                             canvas_height |->
                                 ys[height - 1] + rows_height[height - 1] + cfg.vmargin,
                             render_cfg |-> cfg]
                    IN  Make(columns_xs, rows_ys)
            IN  Origins(
                    [c \in 0..(width - 1) |->
                        SetMax({0} \cup {2 + boxes[i].text_width + cfg.padding * 2 :
                                   i \in {j \in idx : boxes[j].column - min_column = c}})],
                    [r \in 0..(height - 1) |->
                        SetMax({0} \cup {2 + boxes[i].text_height + cfg.padding * 2 :
                                   i \in {j \in idx : boxes[j].row - min_row = r}})])
    IN  Build(SetMin({boxes[i].column : i \in idx}),
              SetMin({boxes[i].row : i \in idx}),
              1 + (SetMax({boxes[i].column : i \in idx}) - SetMin({boxes[i].column : i \in idx})),
              1 + (SetMax({boxes[i].row : i \in idx}) - SetMin({boxes[i].row : i \in idx})))

column_x(cs, column) == cs.columns_xs[column - cs.min_column]
column_width(cs, column) == cs.columns_width[column - cs.min_column]
row_y(cs, row) == cs.rows_ys[row - cs.min_row]
row_height(cs, row) == cs.rows_height[row - cs.min_row]
has_block_at(cs, p) == cs.blocks_map[p[1] - cs.min_row][p[2] - cs.min_column]

(***************************************************************************)
(* Canvas (render/canvas.rs).                                              *)
(***************************************************************************)
\* a canvas one column short
CanvasNew_narrow(width, height) == [y \in 0..(height - 1) |-> [x \in 0..(width - 2) |-> " "]]

CanvasNew(width, height) == [y \in 0..(height - 1) |-> [x \in 0..(width - 1) |-> " "]]

draw_rect_outline(cv, x, y, width, height) ==
    [yy \in DOMAIN cv |-> [xx \in DOMAIN cv[yy] |->
        IF xx \in x..(x + width - 1) /\ yy \in y..(y + height - 1)
        THEN IF xx \in {x, x + width - 1} /\ yy \in {y, y + height - 1} THEN "+"
             ELSE IF xx \in {x, x + width - 1} THEN "|"
             ELSE IF yy \in {y, y + height - 1} THEN "-"
             ELSE cv[yy][xx]
        ELSE cv[yy][xx]]]

draw_text(cv, x, y, text) ==
    [cv EXCEPT ![y] = [xx \in DOMAIN cv[y] |->
        IF xx \in x..(x + Len(text) - 1) THEN text[xx - x + 1] ELSE cv[y][xx]]]

draw_vertical_line(cv, x, ys) ==
    LET y0 == minmax(ys[1], ys[2])[1]
        y1 == minmax(ys[1], ys[2])[2]
    IN  [yy \in DOMAIN cv |->
            IF yy = y0 \/ yy = y1 THEN [cv[yy] EXCEPT ![x] = "+"]
            ELSE IF y0 < yy /\ yy < y1 THEN [cv[yy] EXCEPT ![x] = "|"]
            ELSE cv[yy]]

\* a horizontal line whose right end is not marked
draw_horizontal_line_open(cv, y, xs) ==
    LET x0 == minmax(xs[1], xs[2])[1]
        x1 == minmax(xs[1], xs[2])[2]
    IN  [cv EXCEPT ![y] = [xx \in DOMAIN cv[y] |->
            IF xx = x0 THEN "+"
            ELSE IF x0 < xx /\ xx <= x1 THEN "-"
            ELSE cv[y][xx]]]

draw_horizontal_line(cv, y, xs) ==
    LET x0 == minmax(xs[1], xs[2])[1]
        x1 == minmax(xs[1], xs[2])[2]
    IN  [cv EXCEPT ![y] = [xx \in DOMAIN cv[y] |->
            IF xx = x0 \/ xx = x1 THEN "+"
            ELSE IF x0 < xx /\ xx < x1 THEN "-"
            ELSE cv[y][xx]]]

(***************************************************************************)
(* Line, Polyline and Score (render/lines.rs).                             *)
(***************************************************************************)
Vertical(x, ys) == [tag |-> "Vertical", at |-> x, span |-> ys]
Horizontal(y, xs) == [tag |-> "Horizontal", at |-> y, span |-> xs]

LineDraw(l, cv) ==
    IF l.tag = "Horizontal" THEN draw_horizontal_line(cv, l.at, l.span)
    ELSE draw_vertical_line(cv, l.at, l.span)

RECURSIVE draw_all(_, _)
\* `for l in &path { l.draw(canvas) }`
draw_all(path, cv) ==
    IF path = <<>> THEN cv ELSE draw_all(Tail(path), LineDraw(Head(path), cv))

ScoreNew == [path_len |-> 0, turns |-> 0, intersections |-> 0]

ScoreAdd(a, b) ==
    [intersections |-> a.intersections + b.intersections,
     path_len |-> a.path_len + b.path_len,
     turns |-> a.turns + b.turns]

\* the order of the fields as the struct declares them, as a derived Ord
\* would compare them
ScoreLess_declared_order(a, b) ==
    \/ a.path_len < b.path_len
    \/ /\ a.path_len = b.path_len
       /\ \/ a.intersections < b.intersections
          \/ a.intersections = b.intersections /\ a.turns < b.turns

\* Ord for Score: the tuples (intersections, turns, path_len), lexicographically
ScoreLess(a, b) ==
    \/ a.intersections < b.intersections
    \/ /\ a.intersections = b.intersections
       /\ \/ a.turns < b.turns
          \/ a.turns = b.turns /\ a.path_len < b.path_len

ScoreLeq(a, b) == a = b \/ ScoreLess(a, b)

(***************************************************************************)
(* Anchor selection (render/lines.rs).  Logical points are <<row, column>>,*)
(* canvas points are <<x, y>>.                                             *)
(***************************************************************************)
Signum(a) == IF a > 0 THEN 1 ELSE IF a < 0 THEN -1 ELSE 0

between(a, b) == {a + i * Signum(b - a) : i \in 1..(Abs(b - a) - 1)}

\* anchors of two blocks of a row on the sides that do not face each other
closest_block_points_far_sides(cs, s, d) ==
    LET r0 == s[1]
        c0 == s[2]
        r1 == d[1]
        c1 == d[2]
    IN  IF r0 = r1 THEN
            IF \E cc \in between(c0, c1) : has_block_at(cs, <<r0, cc>>) THEN
                LET sy == IF c0 < c1 THEN row_y(cs, r0)
                          ELSE row_y(cs, r0) + row_height(cs, r0) - 1
                IN  << <<column_x(cs, c0) + column_width(cs, c0) \div 2, sy>>,
                       <<column_x(cs, c1) + column_width(cs, c1) \div 2, sy>> >>
            ELSE
                LET sy == row_y(cs, r0) + row_height(cs, r0) \div 2
                IN  IF c0 > c1
                    THEN << <<column_x(cs, c0) + column_width(cs, c0) - 1, sy>>,
                            <<column_x(cs, c1), sy>> >>
                    ELSE << <<column_x(cs, c0), sy>>,
                            <<column_x(cs, c1) + column_width(cs, c1) - 1, sy>> >>
        ELSE IF c0 = c1 THEN
            IF \E rr \in between(r0, r1) : has_block_at(cs, <<rr, c0>>) THEN
                LET sx == IF r0 < r1 THEN column_x(cs, c0) + column_width(cs, c0) - 1
                          ELSE column_x(cs, c0)
                IN  << <<sx, row_y(cs, r0) + row_height(cs, r0) \div 2>>,
                       <<sx, row_y(cs, r1) + row_height(cs, r1) \div 2>> >>
            ELSE
                LET sx == column_x(cs, c0) + column_width(cs, c0) \div 2
                IN  IF r0 < r1
                    THEN << <<sx, row_y(cs, r0) + row_height(cs, r0) - 1>>,
                            <<sx, row_y(cs, r1)>> >>
                    ELSE << <<sx, row_y(cs, r0)>>,
                            <<sx, row_y(cs, r1) + row_height(cs, r1) - 1>> >>
        ELSE
            << <<column_x(cs, c0) + column_width(cs, c0) \div 2,
                 IF r0 < r1 THEN row_y(cs, r0) + row_height(cs, r0) - 1
                 ELSE row_y(cs, r0)>>,
               <<IF c0 < c1 THEN column_x(cs, c1)
                 ELSE column_x(cs, c1) + column_width(cs, c1) - 1,
                 row_y(cs, r1) + row_height(cs, r1) \div 2>> >>

\* a detour around a block of the column on the other side
closest_block_points_detour_left(cs, s, d) ==
    LET r0 == s[1]
        c0 == s[2]
        r1 == d[1]
        c1 == d[2]
    IN  IF r0 = r1 THEN
            IF \E cc \in between(c0, c1) : has_block_at(cs, <<r0, cc>>) THEN
                LET sy == IF c0 < c1 THEN row_y(cs, r0)
                          ELSE row_y(cs, r0) + row_height(cs, r0) - 1
                IN  << <<column_x(cs, c0) + column_width(cs, c0) \div 2, sy>>,
                       <<column_x(cs, c1) + column_width(cs, c1) \div 2, sy>> >>
            ELSE
                LET sy == row_y(cs, r0) + row_height(cs, r0) \div 2
                IN  IF c0 < c1
                    THEN << <<column_x(cs, c0) + column_width(cs, c0) - 1, sy>>,
                            <<column_x(cs, c1), sy>> >>
                    ELSE << <<column_x(cs, c0), sy>>,
                            <<column_x(cs, c1) + column_width(cs, c1) - 1, sy>> >>
        ELSE IF c0 = c1 THEN
            IF \E rr \in between(r0, r1) : has_block_at(cs, <<rr, c0>>) THEN
                LET sx == IF r0 > r1 THEN column_x(cs, c0) + column_width(cs, c0) - 1
                          ELSE column_x(cs, c0)
                IN  << <<sx, row_y(cs, r0) + row_height(cs, r0) \div 2>>,
                       <<sx, row_y(cs, r1) + row_height(cs, r1) \div 2>> >>
            ELSE
                LET sx == column_x(cs, c0) + column_width(cs, c0) \div 2
                IN  IF r0 < r1
                    THEN << <<sx, row_y(cs, r0) + row_height(cs, r0) - 1>>,
                            <<sx, row_y(cs, r1)>> >>
                    ELSE << <<sx, row_y(cs, r0)>>,
                            <<sx, row_y(cs, r1) + row_height(cs, r1) - 1>> >>
        ELSE
            << <<column_x(cs, c0) + column_width(cs, c0) \div 2,
                 IF r0 < r1 THEN row_y(cs, r0) + row_height(cs, r0) - 1
                 ELSE row_y(cs, r0)>>,
               <<IF c0 < c1 THEN column_x(cs, c1)
                 ELSE column_x(cs, c1) + column_width(cs, c1) - 1,
                 row_y(cs, r1) + row_height(cs, r1) \div 2>> >>

\* a diagonal edge that enters its destination from above or below
closest_block_points_enter_above(cs, s, d) ==
    LET r0 == s[1]
        c0 == s[2]
        r1 == d[1]
        c1 == d[2]
    IN  IF r0 = r1 THEN
            IF \E cc \in between(c0, c1) : has_block_at(cs, <<r0, cc>>) THEN
                LET sy == IF c0 < c1 THEN row_y(cs, r0)
                          ELSE row_y(cs, r0) + row_height(cs, r0) - 1
                IN  << <<column_x(cs, c0) + column_width(cs, c0) \div 2, sy>>,
                       <<column_x(cs, c1) + column_width(cs, c1) \div 2, sy>> >>
            ELSE
                LET sy == row_y(cs, r0) + row_height(cs, r0) \div 2
                IN  IF c0 < c1
                    THEN << <<column_x(cs, c0) + column_width(cs, c0) - 1, sy>>,
                            <<column_x(cs, c1), sy>> >>
                    ELSE << <<column_x(cs, c0), sy>>,
                            <<column_x(cs, c1) + column_width(cs, c1) - 1, sy>> >>
        ELSE IF c0 = c1 THEN
            IF \E rr \in between(r0, r1) : has_block_at(cs, <<rr, c0>>) THEN
                LET sx == IF r0 < r1 THEN column_x(cs, c0) + column_width(cs, c0) - 1
                          ELSE column_x(cs, c0)
                IN  << <<sx, row_y(cs, r0) + row_height(cs, r0) \div 2>>,
                       <<sx, row_y(cs, r1) + row_height(cs, r1) \div 2>> >>
            ELSE
                LET sx == column_x(cs, c0) + column_width(cs, c0) \div 2
                IN  IF r0 < r1
                    THEN << <<sx, row_y(cs, r0) + row_height(cs, r0) - 1>>,
                            <<sx, row_y(cs, r1)>> >>
                    ELSE << <<sx, row_y(cs, r0)>>,
                            <<sx, row_y(cs, r1) + row_height(cs, r1) - 1>> >>
        ELSE
            << <<column_x(cs, c0) + column_width(cs, c0) \div 2,
                 IF r0 < r1 THEN row_y(cs, r0) + row_height(cs, r0) - 1
                 ELSE row_y(cs, r0)>>,
               <<column_x(cs, c1) + column_width(cs, c1) \div 2,
                 IF r0 < r1 THEN row_y(cs, r1)
                 ELSE row_y(cs, r1) + row_height(cs, r1) - 1>> >>

closest_block_points(cs, s, d) ==
    LET r0 == s[1]
        c0 == s[2]
        r1 == d[1]
        c1 == d[2]
    IN  IF r0 = r1 THEN
            IF \E cc \in between(c0, c1) : has_block_at(cs, <<r0, cc>>) THEN
                LET sy == IF c0 < c1 THEN row_y(cs, r0)
                          ELSE row_y(cs, r0) + row_height(cs, r0) - 1
                IN  << <<column_x(cs, c0) + column_width(cs, c0) \div 2, sy>>,
                       <<column_x(cs, c1) + column_width(cs, c1) \div 2, sy>> >>
            ELSE
                LET sy == row_y(cs, r0) + row_height(cs, r0) \div 2
                IN  IF c0 < c1
                    THEN << <<column_x(cs, c0) + column_width(cs, c0) - 1, sy>>,
                            <<column_x(cs, c1), sy>> >>
                    ELSE << <<column_x(cs, c0), sy>>,
                            <<column_x(cs, c1) + column_width(cs, c1) - 1, sy>> >>
        ELSE IF c0 = c1 THEN
            IF \E rr \in between(r0, r1) : has_block_at(cs, <<rr, c0>>) THEN
                LET sx == IF r0 < r1 THEN column_x(cs, c0) + column_width(cs, c0) - 1
                          ELSE column_x(cs, c0)
                IN  << <<sx, row_y(cs, r0) + row_height(cs, r0) \div 2>>,
                       <<sx, row_y(cs, r1) + row_height(cs, r1) \div 2>> >>
            ELSE
                LET sx == column_x(cs, c0) + column_width(cs, c0) \div 2
                IN  IF r0 < r1
                    THEN << <<sx, row_y(cs, r0) + row_height(cs, r0) - 1>>,
                            <<sx, row_y(cs, r1)>> >>
                    ELSE << <<sx, row_y(cs, r0)>>,
                            <<sx, row_y(cs, r1) + row_height(cs, r1) - 1>> >>
        ELSE
            << <<column_x(cs, c0) + column_width(cs, c0) \div 2,
                 IF r0 < r1 THEN row_y(cs, r0) + row_height(cs, r0) - 1
                 ELSE row_y(cs, r0)>>,
               <<IF c0 < c1 THEN column_x(cs, c1)
                 ELSE column_x(cs, c1) + column_width(cs, c1) - 1,
                 row_y(cs, r1) + row_height(cs, r1) \div 2>> >>

(***************************************************************************)
(* The search (render/lines.rs, shortest_path).  The BinaryHeap holds      *)
(* (Reverse(score), path, node) and pops its greatest element: the least   *)
(* score, among equal scores the greatest path (derived Ord of Vec<Line>:  *)
(* Vertical < Horizontal, then the fields), then the greatest node.  The   *)
(* queue of the model is the sequence of the heap's elements in pop order. *)
(***************************************************************************)
\* derived Ord of Line
LineLess(a, b) ==
    IF a.tag # b.tag THEN a.tag = "Vertical"
    ELSE IF a.at # b.at THEN a.at < b.at
    ELSE IF a.span[1] # b.span[1] THEN a.span[1] < b.span[1]
    ELSE a.span[2] < b.span[2]

\* Ord of Vec<Line>: lexicographic, a proper prefix is smaller
PathLess(p, q) ==
    LET n == Min(Len(p), Len(q))
        diff == {i \in 1..n : p[i] # q[i]}
    IN  IF diff = {} THEN Len(p) < Len(q)
        ELSE LineLess(p[SetMin(diff)], q[SetMin(diff)])

NodeLess(a, b) == a[1] < b[1] \/ (a[1] = b[1] /\ a[2] < b[2])

\* a leaves the heap before b
PopsBefore(a, b) ==
    IF a.score # b.score THEN ScoreLess(a.score, b.score)
    ELSE IF a.path # b.path THEN PathLess(b.path, a.path)
    ELSE NodeLess(b.node, a.node)

\* BinaryHeap::push
HeapPush(queue, e) ==
    LET InsertAt(k) == SubSeq(queue, 1, k) \o <<e>> \o SubSeq(queue, k + 1, Len(queue))
    IN  InsertAt(Cardinality({i \in 1..Len(queue) : PopsBefore(queue[i], e)}))

\* the condition of push_node: may the path step on (xx, yy)?
admissible(canvas, src, dst, allow_intersections, xx, yy) ==
    LET srcd == Abs(xx - src[1]) + Abs(yy - src[2])
        dstd == Abs(xx - dst[1]) + Abs(yy - dst[2])
        c == canvas[yy][xx]
    IN  \/ <<xx, yy>> = src
        \/ <<xx, yy>> = dst
        \/ c = " "
        \/ (c # "#" /\ (srcd <= 1 \/ dstd <= 1))
        \/ (allow_intersections /\ c # "#")

\* extend_path with the guard of the Horizontal arm comparing the segment's row
\* with xx: steps along a row are not merged into the last segment
extend_path_row_unmerged(path, x, y, xx, yy) ==
    LET n == Len(path)
    IN  IF n > 0 /\ path[n].tag = "Vertical" /\ path[n].at = xx
        THEN [path EXCEPT ![n] = Vertical(xx,
                 <<Min(Min(y, yy), path[n].span[1]), Max(Max(y, yy), path[n].span[2])>>)]
        ELSE IF n > 0 /\ path[n].tag = "Horizontal" /\ path[n].at = xx
        THEN [path EXCEPT ![n] = Horizontal(yy,
                 <<Min(Min(x, xx), path[n].span[1]), Max(Max(x, xx), path[n].span[2])>>)]
        ELSE Append(path, IF yy = y THEN Horizontal(y, <<Min(x, xx), Max(xx, x)>>)
                          ELSE Vertical(x, <<Min(y, yy), Max(yy, y)>>))

\* extend_path with a new segment built from the step as it is, not ordered
extend_path_unordered(path, x, y, xx, yy) ==
    LET n == Len(path)
    IN  IF n > 0 /\ path[n].tag = "Vertical" /\ path[n].at = xx
        THEN [path EXCEPT ![n] = Vertical(xx,
                 <<Min(Min(y, yy), path[n].span[1]), Max(Max(y, yy), path[n].span[2])>>)]
        ELSE IF n > 0 /\ path[n].tag = "Horizontal" /\ path[n].at = yy
        THEN [path EXCEPT ![n] = Horizontal(yy,
                 <<Min(Min(x, xx), path[n].span[1]), Max(Max(x, xx), path[n].span[2])>>)]
        ELSE Append(path, IF yy = y THEN Horizontal(y, <<x, xx>>)
                          ELSE Vertical(x, <<y, yy>>))

\* the path of push_node: extend the last segment or start a new one
extend_path(path, x, y, xx, yy) ==
    LET n == Len(path)
    IN  IF n > 0 /\ path[n].tag = "Vertical" /\ path[n].at = xx
        THEN [path EXCEPT ![n] = Vertical(xx,
                 <<Min(Min(y, yy), path[n].span[1]), Max(Max(y, yy), path[n].span[2])>>)]
        ELSE IF n > 0 /\ path[n].tag = "Horizontal" /\ path[n].at = yy
        THEN [path EXCEPT ![n] = Horizontal(yy,
                 <<Min(Min(x, xx), path[n].span[1]), Max(Max(x, xx), path[n].span[2])>>)]
        ELSE Append(path, IF yy = y THEN Horizontal(y, <<Min(x, xx), Max(xx, x)>>)
                          ELSE Vertical(x, <<Min(y, yy), Max(yy, y)>>))

\* a score that counts a step onto the padding symbol as an intersection
step_score_padding_penalized(canvas, src, dst, score, path, xx, yy) ==
    LET c == canvas[yy][xx]
        n == Len(path)
        extends == \/ n > 0 /\ path[n].tag = "Vertical" /\ path[n].at = xx
                   \/ n > 0 /\ path[n].tag = "Horizontal" /\ path[n].at = yy
    IN  [intersections |-> score.intersections +
             (IF c # " " /\ <<xx, yy>> # src /\ <<xx, yy>> # dst THEN 1 ELSE 0),
         turns |-> score.turns + (IF extends THEN 0 ELSE 1),
         path_len |-> score.path_len + 1]

\* the score of push_node
step_score(canvas, src, dst, score, path, xx, yy) ==
    LET c == canvas[yy][xx]
        n == Len(path)
        extends == \/ n > 0 /\ path[n].tag = "Vertical" /\ path[n].at = xx
                   \/ n > 0 /\ path[n].tag = "Horizontal" /\ path[n].at = yy
    IN  [intersections |-> score.intersections +
             (IF c # " " /\ c # "@" /\ <<xx, yy>> # src /\ <<xx, yy>> # dst THEN 1 ELSE 0),
         turns |-> score.turns + (IF extends THEN 0 ELSE 1),
         path_len |-> score.path_len + 1]

\* the closure push_node called on (xx, yy) from the popped entry e, when the
\* bound check `inside` that guards the call holds
push_node(canvas, src, dst, allow_intersections, queue, e, xx, yy, inside) ==
    IF inside /\ admissible(canvas, src, dst, allow_intersections, xx, yy)
    THEN HeapPush(queue,
            [score |-> step_score(canvas, src, dst, e.score, e.path, xx, yy),
             path |-> extend_path(e.path, e.node[1], e.node[2], xx, yy),
             node |-> <<xx, yy>>])
    ELSE queue

\* the loop body without its last call of push_node: the cell above the
\* popped one is never pushed
expand_three_sides(cs, canvas, src, dst, allow_intersections, queue, e) ==
    push_node(canvas, src, dst, allow_intersections,
        push_node(canvas, src, dst, allow_intersections,
            push_node(canvas, src, dst, allow_intersections, queue, e,
                      e.node[1] - 1, e.node[2], e.node[1] > 0),
            e, e.node[1] + 1, e.node[2], e.node[1] + 1 < cs.canvas_width),
        e, e.node[1], e.node[2] + 1, e.node[2] + 1 < cs.canvas_height)

\* the four guarded calls of push_node at the end of the loop body, in order
expand(cs, canvas, src, dst, allow_intersections, queue, e) ==
    push_node(canvas, src, dst, allow_intersections,
        push_node(canvas, src, dst, allow_intersections,
            push_node(canvas, src, dst, allow_intersections,
                push_node(canvas, src, dst, allow_intersections, queue, e,
                          e.node[1] - 1, e.node[2], e.node[1] > 0),
                e, e.node[1] + 1, e.node[2], e.node[1] + 1 < cs.canvas_width),
            e, e.node[1], e.node[2] + 1, e.node[2] + 1 < cs.canvas_height),
        e, e.node[1], e.node[2] - 1, e.node[2] > 0)

None == [some |-> FALSE]
\* a search or a pass that was not run, and the record of a search that was
NotRun == [run |-> FALSE]
Ran(r) == [run |-> TRUE, result |-> r]
Some(score, path) == [some |-> TRUE, score |-> score, path |-> path]

\* search_step returning as soon as the popped node is next to dst
search_step_next_to_dst(cs, canvas, src, dst, allow_intersections, st) ==
    IF st.done THEN st
    ELSE IF st.queue = <<>> THEN [st EXCEPT !.done = TRUE, !.result = None]
    ELSE LET e == Head(st.queue)
         IN  IF Abs(e.node[1] - dst[1]) + Abs(e.node[2] - dst[2]) <= 1
             THEN [st EXCEPT !.done = TRUE, !.result = Some(e.score, e.path)]
             ELSE IF e.node \in st.seen
             THEN [st EXCEPT !.queue = Tail(st.queue)]
             ELSE [st EXCEPT
                     !.queue = expand(cs, canvas, src, dst, allow_intersections,
                                      Tail(st.queue), e),
                     !.seen = st.seen \cup {e.node},
                     !.expansions = st.expansions + 1]

\* one iteration of `while let Some(..) = queue.pop()`; `st` holds the queue, the
\* seen set, the number of nodes expanded so far (those that got past the
\* seen check and had their neighbours pushed) and, once the loop has ended,
\* its result
search_step(cs, canvas, src, dst, allow_intersections, st) ==
    IF st.done THEN st
    ELSE IF st.queue = <<>> THEN [st EXCEPT !.done = TRUE, !.result = None]
    ELSE LET e == Head(st.queue)
         IN  IF e.node = dst
             THEN [st EXCEPT !.done = TRUE, !.result = Some(e.score, e.path)]
             ELSE IF e.node \in st.seen
             THEN [st EXCEPT !.queue = Tail(st.queue)]
             ELSE [st EXCEPT
                     !.queue = expand(cs, canvas, src, dst, allow_intersections,
                                      Tail(st.queue), e),
                     !.seen = st.seen \cup {e.node},
                     !.expansions = st.expansions + 1]

RECURSIVE search_loop(_, _, _, _, _, _, _)
\* at most n iterations of the loop from st, stopping when it has ended; the
\* iterations are split in two halves to keep the evaluation shallow
search_loop(cs, canvas, src, dst, allow_intersections, st, n) ==
    IF st.done \/ n = 0 THEN st
    ELSE IF n = 1 THEN search_step(cs, canvas, src, dst, allow_intersections, st)
    ELSE search_loop(cs, canvas, src, dst, allow_intersections,
             search_loop(cs, canvas, src, dst, allow_intersections, st, n \div 2),
             n - n \div 2)

\* Every node enters `seen` once and then pushes at most four entries, so the
\* loop pops at most 1 + 4 * width * height entries before the queue is empty;
\* one more iteration sees the empty queue.
\* The result is the Option the code returns, with a record of the run of the
\* loop: whether it ended, how many nodes it expanded, how many cells are in
\* `seen` and whether dst is one of them.
shortest_path(cs, canvas, src, dst, allow_intersections) ==
    LET Out(st) ==
            [some |-> st.result.some,
             score |-> IF st.result.some THEN st.result.score ELSE ScoreNew,
             path |-> IF st.result.some THEN st.result.path ELSE <<>>,
             ended |-> st.done,
             expansions |-> st.expansions,
             seen_cells |-> Cardinality(st.seen),
             dst_seen |-> dst \in st.seen]
    IN  Out(search_loop(cs, canvas, src, dst, allow_intersections,
                [queue |-> <<[score |-> ScoreNew, path |-> <<>>, node |-> src]>>,
                 seen |-> {}, done |-> FALSE, result |-> None, expansions |-> 0],
                2 + 4 * cs.canvas_width * cs.canvas_height))

(***************************************************************************)
(* connect_edges (render/lines.rs).  Block indices are 0-based as in the   *)
(* source; blocks[i + 1] is the block of index i.  The result carries the  *)
(* summed score, the polylines in routing order, the canvas with the       *)
(* polylines drawn and, per polyline, a record of how it was found.        *)
(* `panicked` is set when the unreachable!() branch is taken.              *)
(***************************************************************************)
\* the filter_map closure for one value of allow_intersections; the search
\* from the swapped anchors q runs only when has_alternative
\* the closure keeping the path from the swapped anchors when the scores tie
try_pass_swapped_on_tie(cs, canvas, p, q, has_alternative, allow_intersections) ==
    LET Pick(path, inv) ==
            IF ~has_alternative
            THEN [res |-> path, reversed |-> FALSE,
                  searches |-> [run |-> TRUE, path |-> path, inv |-> NotRun]]
            ELSE IF path.some /\ inv.some
            THEN IF ScoreLess(path.score, inv.score)
                 THEN [res |-> path, reversed |-> FALSE,
                       searches |-> [run |-> TRUE, path |-> path, inv |-> Ran(inv)]]
                 ELSE [res |-> inv, reversed |-> TRUE,
                       searches |-> [run |-> TRUE, path |-> path, inv |-> Ran(inv)]]
            ELSE IF path.some
            THEN [res |-> path, reversed |-> FALSE,
                  searches |-> [run |-> TRUE, path |-> path, inv |-> Ran(inv)]]
            ELSE IF inv.some
            THEN [res |-> inv, reversed |-> TRUE,
                  searches |-> [run |-> TRUE, path |-> path, inv |-> Ran(inv)]]
            ELSE [res |-> None, reversed |-> FALSE,
                  searches |-> [run |-> TRUE, path |-> path, inv |-> Ran(inv)]]
    IN  Pick(shortest_path(cs, canvas, p[1], p[2], allow_intersections),
             shortest_path(cs, canvas, q[1], q[2], allow_intersections))

\* `searches` records the searches the closure ran and what each returned
try_pass(cs, canvas, p, q, has_alternative, allow_intersections) ==
    LET Pick(path, inv) ==
            IF ~has_alternative
            THEN [res |-> path, reversed |-> FALSE,
                  searches |-> [run |-> TRUE, path |-> path, inv |-> NotRun]]
            ELSE IF path.some /\ inv.some
            THEN IF ScoreLeq(path.score, inv.score)
                 THEN [res |-> path, reversed |-> FALSE,
                       searches |-> [run |-> TRUE, path |-> path, inv |-> Ran(inv)]]
                 ELSE [res |-> inv, reversed |-> TRUE,
                       searches |-> [run |-> TRUE, path |-> path, inv |-> Ran(inv)]]
            ELSE IF path.some
            THEN [res |-> path, reversed |-> FALSE,
                  searches |-> [run |-> TRUE, path |-> path, inv |-> Ran(inv)]]
            ELSE IF inv.some
            THEN [res |-> inv, reversed |-> TRUE,
                  searches |-> [run |-> TRUE, path |-> path, inv |-> Ran(inv)]]
            ELSE [res |-> None, reversed |-> FALSE,
                  searches |-> [run |-> TRUE, path |-> path, inv |-> Ran(inv)]]
    IN  Pick(shortest_path(cs, canvas, p[1], p[2], allow_intersections),
             shortest_path(cs, canvas, q[1], q[2], allow_intersections))

\* the anchors a and b are on one line of the canvas and every cell strictly
\* between them is blank or holds the padding symbol: no line runs there yet
straight_free(canvas, a, b) ==
    \/ /\ a[2] = b[2]
       /\ \A x \in (Min(a[1], b[1]) + 1)..(Max(a[1], b[1]) - 1) :
              canvas[a[2]][x] \in {" ", "@"}
    \/ /\ a[1] = b[1]
       /\ \A y \in (Min(a[2], b[2]) + 1)..(Max(a[2], b[2]) - 1) :
              canvas[y][a[1]] \in {" ", "@"}

\* the passes tried in the order [true, false]
route_edge_permissive_first(cs, canvas, blocks, edge) ==
    LET s == <<blocks[edge[1] + 1].row, blocks[edge[1] + 1].column>>
        d == <<blocks[edge[2] + 1].row, blocks[edge[2] + 1].column>>
        WithAnchors(p, q) ==
            LET has_alternative == p[1] # q[2] \/ p[2] # q[1]
                Pack(pick, allow, strict_pass, permissive_pass) ==
                    [found |-> pick.res.some,
                     score |-> IF pick.res.some THEN pick.res.score ELSE ScoreNew,
                     path |-> IF pick.res.some THEN pick.res.path ELSE <<>>,
                     info |-> [edge |-> edge,
                               src |-> IF pick.reversed THEN q[1] ELSE p[1],
                               dst |-> IF pick.reversed THEN q[2] ELSE p[2],
                               allow_intersections |-> allow,
                               has_alternative |-> has_alternative,
                               reversed |-> pick.reversed,
                               straight_free |-> straight_free(canvas, p[1], p[2]),
                               score |-> IF pick.res.some THEN pick.res.score
                                         ELSE ScoreNew,
                               anchors |-> [p |-> p, q |-> q],
                               strict |-> strict_pass,
                               permissive |-> permissive_pass]]
                Second(permissive, strict) ==
                    Pack(strict, FALSE, strict.searches, permissive.searches)
                First(permissive) ==
                    IF permissive.res.some
                    THEN Pack(permissive, TRUE, NotRun, permissive.searches)
                    ELSE Second(permissive, try_pass(cs, canvas, p, q, has_alternative, FALSE))
            IN  First(try_pass(cs, canvas, p, q, has_alternative, TRUE))
    IN  WithAnchors(closest_block_points(cs, s, d), closest_block_points(cs, d, s))

\* the body of the loop over the edges: the path chosen for the edge (b0, b1),
\* the first of the passes [false, true] that finds one
route_edge(cs, canvas, blocks, edge) ==
    LET s == <<blocks[edge[1] + 1].row, blocks[edge[1] + 1].column>>
        d == <<blocks[edge[2] + 1].row, blocks[edge[2] + 1].column>>
        WithAnchors(p, q) ==
            LET has_alternative == p[1] # q[2] \/ p[2] # q[1]
                Pack(pick, allow, strict_pass, permissive_pass) ==
                    [found |-> pick.res.some,
                     score |-> IF pick.res.some THEN pick.res.score ELSE ScoreNew,
                     path |-> IF pick.res.some THEN pick.res.path ELSE <<>>,
                     info |-> [edge |-> edge,
                               src |-> IF pick.reversed THEN q[1] ELSE p[1],
                               dst |-> IF pick.reversed THEN q[2] ELSE p[2],
                               allow_intersections |-> allow,
                               has_alternative |-> has_alternative,
                               reversed |-> pick.reversed,
                               straight_free |-> straight_free(canvas, p[1], p[2]),
                               score |-> IF pick.res.some THEN pick.res.score
                                         ELSE ScoreNew,
                               anchors |-> [p |-> p, q |-> q],
                               strict |-> strict_pass,
                               permissive |-> permissive_pass]]
                Second(strict, permissive) ==
                    Pack(permissive, TRUE, strict.searches, permissive.searches)
                First(strict) ==
                    IF strict.res.some THEN Pack(strict, FALSE, strict.searches, NotRun)
                    ELSE Second(strict, try_pass(cs, canvas, p, q, has_alternative, TRUE))
            IN  First(try_pass(cs, canvas, p, q, has_alternative, FALSE))
    IN  WithAnchors(closest_block_points(cs, s, d), closest_block_points(cs, d, s))

RECURSIVE connect_loop(_, _, _, _, _)
\* `for (b0, b1) in edges`, from the i-th edge on
connect_loop(cs, blocks, edges, i, acc) ==
    LET Step(r) ==
            IF r.found
            THEN connect_loop(cs, blocks, edges, i + 1,
                     [score |-> ScoreAdd(acc.score, r.score),
                      polylines |-> Append(acc.polylines, r.path),
                      canvas |-> draw_all(r.path, acc.canvas),
                      info |-> Append(acc.info, r.info),
                      panicked |-> FALSE])
            ELSE [acc EXCEPT !.panicked = TRUE]
    IN  IF i > Len(edges) \/ acc.panicked THEN acc
        ELSE Step(route_edge(cs, acc.canvas, blocks, edges[i]))

connect_edges(cs, canvas, blocks, edges) ==
    connect_loop(cs, blocks, edges, 1,
        [score |-> ScoreNew, polylines |-> <<>>, canvas |-> canvas,
         info |-> <<>>, panicked |-> FALSE])

(***************************************************************************)
(* find_edges (render/lines.rs): the obstacle map and the edge order.      *)
(***************************************************************************)
\* the rectangle of block b: <<x, y, w, h>>
block_rect(cs, b) ==
    <<column_x(cs, b.column), row_y(cs, b.row),
      column_width(cs, b.column), row_height(cs, b.row)>>

\* the walls alone, no padding symbol around the blocks
obstacle_map_walls_only(canvas, cs, blocks) ==
    [y \in DOMAIN canvas |-> [x \in DOMAIN canvas[y] |->
        IF canvas[y][x] # " " THEN "#" ELSE " "]]

\* lines 39-73: walls for whatever is drawn, then the padding symbol
obstacle_map(canvas, cs, blocks) ==
    LET rects == {block_rect(cs, blocks[i]) : i \in 1..Len(blocks)}
        VPad(hpad) ==
            [y \in DOMAIN hpad |-> [x \in DOMAIN hpad[y] |->
                IF /\ cs.render_cfg.vmargin > 2
                   /\ \E r \in rects : /\ x \in r[1]..(r[1] + r[3] - 1)
                                       /\ y \in {r[2] - 1, r[2] + r[4]}
                THEN "@" ELSE hpad[y][x]]]
        HPad(walls) ==
            VPad([y \in DOMAIN walls |-> [x \in DOMAIN walls[y] |->
                IF /\ cs.render_cfg.hmargin > 2
                   /\ \E r \in rects : /\ y \in r[2]..(r[2] + r[4] - 1)
                                       /\ x \in {r[1] - 1, r[1] + r[3]}
                THEN "@" ELSE walls[y][x]]])
    IN  HPad([y \in DOMAIN canvas |-> [x \in DOMAIN canvas[y] |->
                 IF canvas[y][x] # " " THEN "#" ELSE " "]])

edge_len(blocks, e) ==
    Abs(blocks[e[1] + 1].column - blocks[e[2] + 1].column)
        + Abs(blocks[e[1] + 1].row - blocks[e[2] + 1].row)

\* the partition taking every edge of length at most 2 for a short one
short_of_up_to_two(blocks, edges) == SelectSeq(edges, LAMBDA e : edge_len(blocks, e) <= 2)

\* Iterator::partition: the elements that satisfy / do not satisfy `edge_len(e) == 1`
short_of(blocks, edges) == SelectSeq(edges, LAMBDA e : edge_len(blocks, e) = 1)
long_of(blocks, edges) == SelectSeq(edges, LAMBDA e : edge_len(blocks, e) # 1)

RECURSIVE sort_by_key(_, _)
\* slice::sort_by_key with the key edge_len: a stable sort, here by insertion of
\* the last element behind the elements of the sorted front with a key <= its own
sort_by_key(blocks, edges) ==
    LET Insert(front, e) ==
            LET At(k) == SubSeq(front, 1, k) \o <<e>> \o SubSeq(front, k + 1, Len(front))
            IN  At(Cardinality({i \in 1..Len(front) :
                                   edge_len(blocks, front[i]) <= edge_len(blocks, e)}))
    IN  IF edges = <<>> THEN <<>>
        ELSE Insert(sort_by_key(blocks, SubSeq(edges, 1, Len(edges) - 1)),
                    edges[Len(edges)])

(***************************************************************************)
(* render (render/mod.rs): drawing the blocks.                             *)
(***************************************************************************)
RECURSIVE draw_text_lines(_, _, _, _, _)
\* `for (ty, t) in b.text.iter().enumerate() { canvas.draw_text(x + xoff, y + yoff + ty, t) }`
draw_text_lines(cv, x, y, text, ty) ==
    IF ty >= Len(text) THEN cv
    ELSE draw_text_lines(draw_text(cv, x, y + ty, text[ty + 1]), x, y, text, ty + 1)

\* the body of `for b in boxes`
draw_block(cv, cs, b) ==
    LET Draw(x, y, w, h) ==
            draw_text_lines(draw_rect_outline(cv, x, y, w, h),
                            x + (w - b.text_width) \div 2,
                            y + (h - b.text_height) \div 2, b.text, 0)
    IN  Draw(column_x(cs, b.column), row_y(cs, b.row),
             column_width(cs, b.column), row_height(cs, b.row))

RECURSIVE draw_blocks(_, _, _)
draw_blocks(cv, cs, boxes) ==
    IF boxes = <<>> THEN cv
    ELSE draw_blocks(draw_block(cv, cs, Head(boxes)), cs, Tail(boxes))

RECURSIVE draw_polylines(_, _)
\* `for poly in find_edges(..) { for l in poly { l.draw(&mut canvas) } }`
draw_polylines(polys, cv) ==
    IF polys = <<>> THEN cv
    ELSE draw_polylines(Tail(polys), draw_all(Head(polys), cv))

\* SliceRandom::shuffle: the orders a shuffle of `edges` can leave
Shuffles(edges) ==
    LET n == Len(edges)
    IN  {[i \in 1..n |-> edges[p[i]]] : p \in {f \in [1..n -> 1..n] : \A i, j \in 1..n : f[i] = f[j] => i = j}}

(***************************************************************************)
(* The inputs of render drawn by Init.  A scenario is a block list (each   *)
(* block given by its position and raw text), the margins and padding, and *)
(* a pool of edges; the edge list is any sequence of at most MaxEdges      *)
(* edges of the pool, max_tweaks any number up to MaxTweaks.               *)
(***************************************************************************)
SeqsUpTo(S, n) == UNION {[1..k -> S] : k \in 0..n}

Layout(positions) == [i \in 1..Len(positions) |-> BlockNew(positions[i], <<>>)]

Scenarios ==
    { \* no block at all
      [blocks |-> <<>>, hmargin |-> 1, vmargin |-> 1, padding |-> 0,
       pool |-> {<<0, 1>>}],
      \* a full 2 x 2 grid: both diagonals and one pair of neighbours
      [blocks |-> Layout(<< <<0, 0>>, <<0, 1>>, <<1, 0>>, <<1, 1>> >>),
       hmargin |-> 1, vmargin |-> 1, padding |-> 0,
       pool |-> {<<0, 3>>, <<1, 2>>, <<0, 1>>}],
      \* two blocks of a row around an empty column, a third one below it
      [blocks |-> Layout(<< <<0, 0>>, <<0, 2>>, <<1, 1>> >>),
       hmargin |-> 1, vmargin |-> 1, padding |-> 0,
       pool |-> {<<0, 1>>, <<2, 0>>}],
      \* three blocks in a row, without and with a vertical margin
      [blocks |-> Layout(<< <<0, 0>>, <<0, 1>>, <<0, 2>> >>),
       hmargin |-> 1, vmargin |-> 0, padding |-> 0,
       pool |-> {<<0, 2>>, <<1, 0>>}],
      [blocks |-> Layout(<< <<0, 0>>, <<0, 1>>, <<0, 2>> >>),
       hmargin |-> 1, vmargin |-> 1, padding |-> 0,
       pool |-> {<<0, 2>>, <<2, 0>>}],
      \* a block whose text is one space above a block of two lines, at
      \* negative coordinates
      [blocks |-> <<BlockNew(<<-1, -1>>, <<" ">>),
                    BlockNew(<<0, -1>>, <<"t", "c", "n", "t", "t">>)>>,
       hmargin |-> 2, vmargin |-> 1, padding |-> 0,
       pool |-> {<<0, 0>>, <<1, 0>>}],
      \* two neighbours of a row, the margin wide enough for the padding symbol
      [blocks |-> Layout(<< <<0, 0>>, <<0, 1>> >>),
       hmargin |-> 3, vmargin |-> 1, padding |-> 0,
       pool |-> {<<0, 1>>}],
      \* a 2 x 2 grid with both margins wide enough for it: a pair of
      \* neighbours and a diagonal
      [blocks |-> Layout(<< <<0, 0>>, <<0, 1>>, <<1, 0>>, <<1, 1>> >>),
       hmargin |-> 3, vmargin |-> 3, padding |-> 0,
       pool |-> {<<0, 1>>, <<0, 3>>}],
      \* blocks of several sizes with padding: a full row, a column with a
      \* block and an empty row between its ends, a row and a column with a
      \* free cell between their ends
      [blocks |-> <<BlockNew(<<0, 0>>, <<"t", "t">>), BlockNew(<<0, 1>>, <<"t">>),
                    BlockNew(<<0, 2>>, <<>>), BlockNew(<<1, 0>>, <<"t", "n", "t">>),
                    BlockNew(<<3, 0>>, <<"t">>), BlockNew(<<3, 2>>, <<"t", "t", "t">>)>>,
       hmargin |-> 2, vmargin |-> 1, padding |-> 1,
       pool |-> {<<0, 4>>}]
    }

Inputs ==
    UNION {{[blocks |-> sc.blocks, edges |-> es,
             cfg |-> [hmargin |-> sc.hmargin, vmargin |-> sc.vmargin,
                      padding |-> sc.padding, max_tweaks |-> mt]] :
              es \in SeqsUpTo(sc.pool, MaxEdges), mt \in {0, MaxTweaks}} : sc \in Scenarios}

(***************************************************************************)
(* The state of one call of render.                                        *)
(***************************************************************************)
VARIABLES
    pc,          \* where the call is: see the actions
    boxes,       \* render's argument `boxes`
    input_edges, \* render's argument `edges`
    config,      \* render's argument `config`
    cs,          \* render's CanvasSpace
    canvas,      \* render's canvas
    work,        \* find_edges' `canvas`: the obstacle map, then the short edges
    short_edges, \* find_edges' `short_edges`
    edges,       \* find_edges' `edges`: the other edges, in their current order
    short_poly,  \* find_edges' `short_poly`
    poly,        \* find_edges' `poly`
    best_score,  \* find_edges' `best_score`
    tweaks,      \* the number of iterations of the tweak loop begun so far
    short_info,  \* how each polyline of short_poly was found
    poly_info,   \* how each polyline of poly was found
    last_try,    \* the score and edge order of the last retry
    attempts,    \* what connect_edges gives on a clone of `work`, per edge order
    returned,    \* what find_edges returned
    output       \* what render returned

vars == <<pc, boxes, input_edges, config, cs, canvas, work, short_edges, edges,
          short_poly, poly, best_score, tweaks, short_info, poly_info, last_try,
          attempts, returned, output>>

NoCanvasSpace == [canvas_width |-> 0, canvas_height |-> 0]
NoTry == [made |-> FALSE]

Init ==
    \E in \in Inputs :
        /\ pc = "render"
        /\ boxes = in.blocks
        /\ input_edges = in.edges
        /\ config = in.cfg
        /\ cs = NoCanvasSpace
        /\ canvas = <<>>
        /\ work = <<>>
        /\ short_edges = <<>>
        /\ edges = <<>>
        /\ short_poly = <<>>
        /\ poly = <<>>
        /\ best_score = ScoreNew
        /\ tweaks = 0
        /\ short_info = <<>>
        /\ poly_info = <<>>
        /\ last_try = NoTry
        /\ attempts = <<>>
        /\ returned = <<>>
        /\ output = <<>>

\* an early return that hands back one empty row
RenderEmpty_one_row ==
    /\ pc = "render"
    /\ boxes = <<>>
    /\ pc' = "done"
    /\ output' = << <<>> >>
    /\ UNCHANGED <<boxes, input_edges, config, cs, canvas, work, short_edges, edges,
                   short_poly, poly, best_score, tweaks, short_info, poly_info,
                   last_try, attempts, returned>>

\* render, lines 35-37: no block, an empty matrix
RenderEmpty ==
    /\ pc = "render"
    /\ boxes = <<>>
    /\ pc' = "done"
    /\ output' = <<>>
    /\ UNCHANGED <<boxes, input_edges, config, cs, canvas, work, short_edges, edges,
                   short_poly, poly, best_score, tweaks, short_info, poly_info,
                   last_try, attempts, returned>>

\* render, lines 39-57: the CanvasSpace, the canvas and the blocks on it
RenderBlocks ==
    /\ pc = "render"
    /\ boxes # <<>>
    /\ \E space \in {CanvasSpaceNew(boxes, config)} :
           /\ cs' = space
           /\ canvas' = draw_blocks(CanvasNew(space.canvas_width, space.canvas_height),
                                    space, boxes)
    /\ pc' = "find_edges"
    /\ UNCHANGED <<boxes, input_edges, config, work, short_edges, edges, short_poly,
                   poly, best_score, tweaks, short_info, poly_info, last_try,
                   attempts, returned, output>>

\* find_edges, lines 39-91: the obstacle map, the partition and the sort
Prepare ==
    /\ pc = "find_edges"
    /\ work' = obstacle_map(canvas, cs, boxes)
    /\ short_edges' = short_of(boxes, input_edges)
    /\ edges' = sort_by_key(boxes, long_of(boxes, input_edges))
    /\ pc' = "short"
    /\ UNCHANGED <<boxes, input_edges, config, cs, canvas, short_poly, poly,
                   best_score, tweaks, short_info, poly_info, last_try, attempts,
                   returned, output>>

\* the retry is taken unless it is equal to the incumbent
tweak_differs(s, best) == s # best

\* find_edges, line 105: `if s < best_score`
tweak_improves(s, best) == ScoreLess(s, best)

\* the two partitions put together the other way round
find_edges_long_first(short, long) == long \o short

\* find_edges, lines 113-114: `short_poly.extend_from_slice(&poly); short_poly`
find_edges_result(short, long) == short \o long

\* find_edges, line 95: the short edges, drawn on the working canvas
ConnectShort ==
    /\ pc = "short"
    /\ \E r \in {connect_edges(cs, work, boxes, short_edges)} :
           /\ pc' = IF r.panicked THEN "panic" ELSE "long"
           /\ work' = r.canvas
           /\ short_poly' = r.polylines
           /\ short_info' = r.info
    /\ UNCHANGED <<boxes, input_edges, config, cs, canvas, short_edges, edges, poly,
                   best_score, tweaks, poly_info, last_try, attempts, returned,
                   output>>

\* find_edges, line 104: `connect_edges(cs, &mut canvas.clone(), blocks, &edges)`
\* for every order the shuffle can leave the edges in.  The canvas that is
\* cloned, the blocks and the canvas space do not change after line 95, so what
\* a retry gives depends on the order of the edges only.
retries(space, cv, blocks, es) ==
    [order \in Shuffles(es) |-> connect_edges(space, cv, blocks, order)]

\* the first routing of the other edges drawn on the working canvas itself,
\* which the retries then start from
ConnectLong_without_clone ==
    /\ pc = "long"
    /\ \E r \in {connect_edges(cs, work, boxes, edges)} :
           /\ pc' = IF r.panicked THEN "panic" ELSE "tweak"
           /\ best_score' = r.score
           /\ poly' = r.polylines
           /\ poly_info' = r.info
           /\ work' = r.canvas
           /\ attempts' = IF ~r.panicked /\ config.max_tweaks > 0 /\ r.score.intersections # 0
                          THEN retries(cs, r.canvas, boxes, edges)
                          ELSE <<>>
    /\ UNCHANGED <<boxes, input_edges, config, cs, canvas, short_edges, edges,
                   short_poly, tweaks, short_info, last_try, returned, output>>

\* find_edges, line 97: the first routing of the other edges, on a clone; when
\* the tweak loop is going to retry, `attempts` gets what each retry will give
ConnectLong ==
    /\ pc = "long"
    /\ \E r \in {connect_edges(cs, work, boxes, edges)} :
           /\ pc' = IF r.panicked THEN "panic" ELSE "tweak"
           /\ best_score' = r.score
           /\ poly' = r.polylines
           /\ poly_info' = r.info
           /\ attempts' = IF ~r.panicked /\ config.max_tweaks > 0 /\ r.score.intersections # 0
                          THEN retries(cs, work, boxes, edges)
                          ELSE <<>>
    /\ UNCHANGED <<boxes, input_edges, config, cs, canvas, work, short_edges, edges,
                   short_poly, tweaks, short_info, last_try, returned, output>>

\* an iteration of the tweak loop that does not look at the incumbent before
\* it shuffles and routes again
Tweak_without_break ==
    /\ pc = "tweak"
    /\ tweaks < config.max_tweaks
    /\ \E order \in Shuffles(edges) : \E r \in {connect_edges(cs, work, boxes, order)} :
           LET better == ~r.panicked /\ tweak_improves(r.score, best_score)
           IN  /\ edges' = order
               /\ pc' = IF r.panicked THEN "panic" ELSE "tweak"
               /\ best_score' = IF better THEN r.score ELSE best_score
               /\ poly' = IF better THEN r.polylines ELSE poly
               /\ poly_info' = IF better THEN r.info ELSE poly_info
               /\ last_try' = [made |-> TRUE, score |-> r.score, order |-> order,
                               before |-> best_score]
    /\ tweaks' = tweaks + 1
    /\ UNCHANGED <<boxes, input_edges, config, cs, canvas, work, short_edges,
                   short_poly, short_info, attempts, returned, output>>

\* find_edges, lines 98-111: one iteration of the tweak loop that reaches the
\* shuffle; attempts[order] is connect_edges(cs, work, boxes, order)
Tweak ==
    /\ pc = "tweak"
    /\ tweaks < config.max_tweaks
    /\ best_score.intersections # 0
    /\ \E order \in Shuffles(edges) : \E r \in {attempts[order]} :
           LET better == ~r.panicked /\ tweak_improves(r.score, best_score)
           IN  /\ edges' = order
               /\ pc' = IF r.panicked THEN "panic" ELSE "tweak"
               /\ best_score' = IF better THEN r.score ELSE best_score
               /\ poly' = IF better THEN r.polylines ELSE poly
               /\ poly_info' = IF better THEN r.info ELSE poly_info
               /\ last_try' = [made |-> TRUE, score |-> r.score, order |-> order,
                               before |-> best_score]
    /\ tweaks' = tweaks + 1
    /\ UNCHANGED <<boxes, input_edges, config, cs, canvas, work, short_edges,
                   short_poly, short_info, attempts, returned, output>>

\* find_edges, lines 98-100 and 113-114: the loop ends, the result is put together
Return ==
    /\ pc = "tweak"
    /\ tweaks >= config.max_tweaks \/ best_score.intersections = 0
    /\ returned' = find_edges_result(short_poly, poly)
    /\ pc' = "draw"
    /\ UNCHANGED <<boxes, input_edges, config, cs, canvas, work, short_edges, edges,
                   short_poly, poly, best_score, tweaks, short_info, poly_info,
                   last_try, attempts, output>>

\* render, lines 59-65: the polylines are drawn in order, the matrix is returned
DrawPolylines ==
    /\ pc = "draw"
    /\ \E drawn \in {draw_polylines(returned, canvas)} :
           /\ canvas' = drawn
           /\ output' = drawn
    /\ pc' = "done"
    /\ UNCHANGED <<boxes, input_edges, config, cs, work, short_edges, edges,
                   short_poly, poly, best_score, tweaks, short_info, poly_info,
                   last_try, attempts, returned>>

Next ==
    \/ RenderEmpty
    \/ RenderBlocks
    \/ Prepare
    \/ ConnectShort
    \/ ConnectLong
    \/ Tweak
    \/ Return
    \/ DrawPolylines

Spec == Init /\ [][Next]_vars

(***************************************************************************)
(* Vocabulary of the properties.                                           *)
(***************************************************************************)
\* the cells a segment covers, and its two endpoint cells
Cells(l) ==
    IF l.tag = "Horizontal" THEN {<<x, l.at>> : x \in l.span[1]..l.span[2]}
    ELSE {<<l.at, y>> : y \in l.span[1]..l.span[2]}

Ends(l) ==
    IF l.tag = "Horizontal" THEN {<<l.span[1], l.at>>, <<l.span[2], l.at>>}
    ELSE {<<l.at, l.span[1]>>, <<l.at, l.span[2]>>}

PolyCells(p) == UNION {Cells(p[i]) : i \in 1..Len(p)}

\* the rectangle of the block of index i (0-based, as in the edges)
Rect(i) == block_rect(cs, boxes[i + 1])

InRect(c, r) == c[1] \in r[1]..(r[1] + r[3] - 1) /\ c[2] \in r[2]..(r[2] + r[4] - 1)

OnBorder(c, r) ==
    /\ InRect(c, r)
    /\ c[1] \in {r[1], r[1] + r[3] - 1} \/ c[2] \in {r[2], r[2] + r[4] - 1}

Corners(r) ==
    {<<r[1], r[2]>>, <<r[1] + r[3] - 1, r[2]>>,
     <<r[1], r[2] + r[4] - 1>>, <<r[1] + r[3] - 1, r[2] + r[4] - 1>>}

\* every polyline routed so far with the record of how it was found: those of
\* the short edges, then those of the incumbent routing of the other edges
AllPoly == short_poly \o poly
AllInfo == short_info \o poly_info

\* the polyline p connects the two blocks of the edge e: one end of its first
\* segment is on the border of one block, one end of its last segment on the
\* border of the other
Joins(p, e) ==
    /\ p # <<>>
    /\ \E a \in Ends(p[1]), b \in Ends(p[Len(p)]) :
           \/ OnBorder(a, Rect(e[1])) /\ OnBorder(b, Rect(e[2]))
           \/ OnBorder(a, Rect(e[2])) /\ OnBorder(b, Rect(e[1]))

\* (intersections, turns, length) compared lexicographically
Triple(s) == <<s.intersections, s.turns, s.path_len>>
LexLess(a, b) ==
    \/ a[1] < b[1]
    \/ a[1] = b[1] /\ a[2] < b[2]
    \/ a[1] = b[1] /\ a[2] = b[2] /\ a[3] < b[3]

\* the two blocks of e are on one row or one column and no block stands
\* between them
Facing(e) ==
    LET b0 == boxes[e[1] + 1]
        b1 == boxes[e[2] + 1]
    IN  \/ /\ b0.row = b1.row
           /\ ~\E i \in 1..Len(boxes) :
                  /\ boxes[i].row = b0.row
                  /\ Min(b0.column, b1.column) < boxes[i].column
                  /\ boxes[i].column < Max(b0.column, b1.column)
        \/ /\ b0.column = b1.column
           /\ ~\E i \in 1..Len(boxes) :
                  /\ boxes[i].column = b0.column
                  /\ Min(b0.row, b1.row) < boxes[i].row
                  /\ boxes[i].row < Max(b0.row, b1.row)

(***************************************************************************)
(* The order of the result of find_edges.                                  *)
(***************************************************************************)
\* C1, as stated: find_edges returns the polylines in the order of the input
\* edge list: there is one polyline per input edge and, for every i, the i-th
\* returned polyline connects the two blocks of the i-th input edge.
C1_InputOrder ==
    pc = "draw" =>
        /\ Len(returned) = Len(input_edges)
        /\ \A i \in 1..Len(returned) : Joins(returned[i], input_edges[i])

\* C1, amended: find_edges returns one polyline per input edge, the polylines
\* of the edges of Manhattan length 1 first, in their input order, then the
\* polylines of the other edges in the order in which the routing attempt
\* that was kept went through them, a permutation of their input order.
C1_PartitionOrder ==
    pc = "draw" =>
        /\ Len(returned) = Len(input_edges)
        /\ Len(poly_info) = Len(long_of(boxes, input_edges))
        /\ \A i \in 1..Len(short_of(boxes, input_edges)) :
               Joins(returned[i], short_of(boxes, input_edges)[i])
        /\ [j \in 1..Len(poly_info) |-> poly_info[j].edge]
               \in Shuffles(long_of(boxes, input_edges))
        /\ \A j \in 1..Len(poly_info) :
               Joins(returned[Len(short_of(boxes, input_edges)) + j], poly_info[j].edge)

\* find_edges has returned for an input that lists a longer edge before an
\* edge of length 1, and the first polyline is not that of the first edge
C1_LongBeforeShort ==
    /\ pc = "draw"
    /\ \E i, j \in 1..Len(input_edges) :
           /\ i < j
           /\ edge_len(boxes, input_edges[i]) # 1
           /\ edge_len(boxes, input_edges[j]) = 1
    /\ ~Joins(returned[1], input_edges[1])

(***************************************************************************)
(* Routing always finds a path; lines stay out of the blocks.              *)
(***************************************************************************)
\* C2, as stated: for every input with unique block positions and valid edge
\* indices, whatever the margins and the padding, every edge gets a path at
\* the latest in the pass that allows intersections: the unreachable!() branch
\* of connect_edges is never taken.
C2_NeverUnreachable == pc # "panic"

\* C3, as stated: no routed line passes inside a block: every cell a routed
\* polyline covers, other than its two anchors, lies outside the rectangle
\* (border and interior) of every block.
C3_NoLineInsideBlock ==
    \A i \in 1..Len(AllPoly) :
        \A c \in PolyCells(AllPoly[i]) \ {AllInfo[i].src, AllInfo[i].dst} :
            \A b \in 1..Len(boxes) : ~InRect(c, Rect(b - 1))

(***************************************************************************)
(* Straight edges.                                                         *)
(***************************************************************************)
\* C4, as stated: an edge whose two blocks are on the same row or the same
\* column with no block between them is routed as exactly one segment,
\* whatever other edges are routed in the same call.
C4_FacingSingleSegment ==
    \A i \in 1..Len(AllPoly) :
        Facing(AllInfo[i].edge) => Len(AllPoly[i]) = 1

\* C4, amended: such an edge is routed as exactly one segment provided that,
\* when it is routed, no cell strictly between its two anchors holds a line
\* (each is blank or the padding symbol); a polyline routed earlier in the
\* same call that lies on that run can force a detour of several segments.
C4_FreeRunSingleSegment ==
    \A i \in 1..Len(AllPoly) :
        (Facing(AllInfo[i].edge) /\ AllInfo[i].straight_free) => Len(AllPoly[i]) = 1

\* find_edges has returned two polylines or more, one of them the single
\* segment, three cells long or more, of an edge between facing blocks
C4_StraightAmongOthers ==
    /\ pc = "draw"
    /\ Len(returned) >= 2
    /\ \E i \in 1..Len(AllPoly) :
           /\ Facing(AllInfo[i].edge)
           /\ AllInfo[i].straight_free
           /\ Len(AllPoly[i]) = 1
           /\ Cardinality(Cells(AllPoly[i][1])) >= 3

(***************************************************************************)
(* The shape of a polyline.                                                *)
(***************************************************************************)
\* C5: every routed polyline starts at one anchor and ends at the other anchor
\* that closest_block_points computes for the two blocks of its edge, taken
\* in the forward or in the reversed direction: the first segment contains the
\* start anchor, the last segment the end anchor, and each anchor is a cell of
\* the outer border of its block's rectangle.
C5_AnchoredEnds ==
    \A i \in 1..Len(AllPoly) :
        LET e == AllInfo[i].edge
            s == <<boxes[e[1] + 1].row, boxes[e[1] + 1].column>>
            d == <<boxes[e[2] + 1].row, boxes[e[2] + 1].column>>
        IN  \E a \in {<<closest_block_points(cs, s, d), e[1], e[2]>>,
                      <<closest_block_points(cs, d, s), e[2], e[1]>>} :
                /\ AllPoly[i] # <<>>
                /\ a[1][1] \in Cells(AllPoly[i][1])
                /\ a[1][2] \in Cells(AllPoly[i][Len(AllPoly[i])])
                /\ OnBorder(a[1][1], Rect(a[2]))
                /\ OnBorder(a[1][2], Rect(a[3]))

\* find_edges has returned a polyline of several segments that was found from
\* the swapped anchors
C5_ReversedPolyline ==
    /\ pc = "draw"
    /\ \E i \in 1..Len(AllPoly) :
           /\ AllInfo[i].reversed
           /\ Len(AllPoly[i]) >= 2
           /\ returned[i] = AllPoly[i]

\* C6: every polyline that shortest_path and find_edges return has at least one
\* segment, every segment is Horizontal(y, (x0, x1)) with x0 <= x1 or
\* Vertical(x, (y0, y1)) with y0 <= y1, and two consecutive segments share an
\* endpoint cell.
C6_WellFormedPolylines ==
    \A p \in {AllPoly[i] : i \in 1..Len(AllPoly)} \cup {returned[i] : i \in 1..Len(returned)} :
        /\ Len(p) >= 1
        /\ \A k \in 1..Len(p) :
               /\ p[k].tag \in {"Horizontal", "Vertical"}
               /\ p[k].span[1] <= p[k].span[2]
        /\ \A k \in 1..(Len(p) - 1) : Ends(p[k]) \cap Ends(p[k + 1]) # {}

\* find_edges has returned a polyline of three segments or more, one of them
\* vertical and longer than one cell
C6_ThreeSegments ==
    /\ pc = "draw"
    /\ \E i \in 1..Len(returned) :
           /\ Len(returned[i]) >= 3
           /\ \E k \in 1..Len(returned[i]) :
                  /\ returned[i][k].tag = "Vertical"
                  /\ returned[i][k].span[1] < returned[i][k].span[2]

(***************************************************************************)
(* The tweak loop.                                                         *)
(***************************************************************************)
\* C7: across the tweak loop the incumbent summed Score never gets worse: an
\* iteration leaves it as it is or replaces it by the score of the retry, and
\* then that score is strictly smaller in the lexicographic order of
\* (intersections, turns, length); so more tweaks never give a worse result.
C7_IncumbentNeverWorsens ==
    [][pc = "tweak" =>
          \/ best_score' = best_score
          \/ /\ LexLess(Triple(best_score'), Triple(best_score))
             /\ last_try'.made
             /\ best_score' = last_try'.score]_vars

\* the tweak loop has retried twice and the second retry replaced the incumbent
C7_RetryKeptThenReplaced ==
    /\ pc = "tweak"
    /\ tweaks = 2
    /\ last_try.made
    /\ best_score = last_try.score
    /\ best_score # last_try.before

(***************************************************************************)
(* The matrix that render returns.                                         *)
(***************************************************************************)
\* C9, as stated: in the matrix returned by render every block's text is
\* intact: line k of block B is at row row_y(B.row) + (row_height -
\* B.text_height) / 2 + k, from column column_x(B.column) + (column_width -
\* B.text_width) / 2 on, and nothing has overwritten any of its bytes.
C9_TextIntact ==
    (pc = "done" /\ boxes # <<>>) =>
        \A b \in 1..Len(boxes) :
            \A k \in 1..Len(boxes[b].text) :
                \A j \in 1..Len(boxes[b].text[k]) :
                    output[row_y(cs, boxes[b].row)
                               + (row_height(cs, boxes[b].row) - boxes[b].text_height) \div 2
                               + (k - 1)]
                          [column_x(cs, boxes[b].column)
                               + (column_width(cs, boxes[b].column) - boxes[b].text_width) \div 2
                               + (j - 1)]
                        = boxes[b].text[k][j]

\* C10, as stated: in the matrix returned by render the four corner cells of
\* every block outline hold '+', after all the polylines have been drawn.
C10_CornersArePlus ==
    (pc = "done" /\ boxes # <<>>) =>
        \A b \in 1..Len(boxes) :
            \A c \in Corners(Rect(b - 1)) : output[c[2]][c[1]] = "+"

(***************************************************************************)
(* C11: the bytes of the drawn polylines.                                  *)
(***************************************************************************)
\* the byte a segment writes at one of its cells
Glyph(l, c) ==
    IF c \in Ends(l) THEN "+" ELSE IF l.tag = "Horizontal" THEN "-" ELSE "|"

\* the segments of the returned polylines as <<polyline, segment>> indices,
\* and the order in which render draws them
Drawn == UNION {{<<i, k>> : k \in 1..Len(returned[i])} : i \in 1..Len(returned)}
DrawnAfter(a, b) == a[1] > b[1] \/ (a[1] = b[1] /\ a[2] > b[2])

\* C11 as stated: once render has drawn all the polylines, every end of every
\* segment is '+' and every other cell of a segment is '-' on a horizontal
\* segment and '|' on a vertical one
C11_SegmentsAsDrawn ==
    (pc = "done" /\ boxes # <<>>) =>
        \A ik \in Drawn : \A c \in Cells(returned[ik[1]][ik[2]]) :
            output[c[2]][c[1]] = Glyph(returned[ik[1]][ik[2]], c)

\* C11 amended: every cell of a segment holds the byte of the segment drawn
\* last among those that cover it, '+' at that segment's ends and '-' or '|'
\* elsewhere; a segment no later one covers is drawn as C11 states
C11_LastSegmentWins ==
    (pc = "done" /\ boxes # <<>>) =>
        \A ik \in Drawn : \A c \in Cells(returned[ik[1]][ik[2]]) :
            (\A jl \in Drawn : DrawnAfter(jl, ik) => c \notin Cells(returned[jl[1]][jl[2]]))
                => output[c[2]][c[1]] = Glyph(returned[ik[1]][ik[2]], c)

\* two polylines were drawn and the later one left '-' or '|' over an end of
\* a segment of the earlier one
C11_EndOverdrawn ==
    /\ pc = "done" /\ boxes # <<>>
    /\ \E ik \in Drawn : \E c \in Ends(returned[ik[1]][ik[2]]) :
           /\ output[c[2]][c[1]] \in {"-", "|"}
           /\ \E jl \in Drawn : jl[1] > ik[1] /\ c \in Cells(returned[jl[1]][jl[2]])

(***************************************************************************)
(* C12: the dimensions of the canvas and the cells the primitives write.   *)
(***************************************************************************)
\* the matrix m has canvas_height rows of canvas_width bytes each
HasCanvasSize(m) ==
    /\ DOMAIN m = 0..(cs.canvas_height - 1)
    /\ \A y \in DOMAIN m : DOMAIN m[y] = 0..(cs.canvas_width - 1)

InCanvas(c) == c[1] \in 0..(cs.canvas_width - 1) /\ c[2] \in 0..(cs.canvas_height - 1)

\* the cells draw_rect_outline and draw_text write for the block of index i
\* (render, lines 42-57)
OutlineCells(i) ==
    {c \in (Rect(i)[1]..(Rect(i)[1] + Rect(i)[3] - 1)) \X
            (Rect(i)[2]..(Rect(i)[2] + Rect(i)[4] - 1)) : OnBorder(c, Rect(i))}
TextCells(i) ==
    LET b == boxes[i + 1]
        x == Rect(i)[1] + (Rect(i)[3] - b.text_width) \div 2
        y == Rect(i)[2] + (Rect(i)[4] - b.text_height) \div 2
    IN  UNION {{<<x + k, y + ty>> : k \in 0..(Len(b.text[ty + 1]) - 1)} :
               ty \in 0..(Len(b.text) - 1)}

\* C12: for a non-empty block list the canvas, the routing canvas and the
\* returned matrix have canvas_height rows of canvas_width bytes each, and
\* every cell written by draw_rect_outline, draw_text and the two line
\* primitives is inside these bounds
C12_CanvasSizeKept ==
    (boxes # <<>> /\ pc # "render") =>
        /\ HasCanvasSize(canvas)
        /\ pc # "find_edges" => HasCanvasSize(work)
        /\ pc = "done" => HasCanvasSize(output)
        /\ \A i \in 0..(Len(boxes) - 1) :
               \A c \in OutlineCells(i) \cup TextCells(i) : InCanvas(c)
        /\ \A i \in 1..Len(AllPoly) : \A c \in PolyCells(AllPoly[i]) : InCanvas(c)
        /\ \A i \in 1..Len(returned) : \A c \in PolyCells(returned[i]) : InCanvas(c)

\* render returned a matrix on which a block with text and a polyline that
\* reaches the first row of the canvas were drawn
C12_DrawnToTheEdge ==
    /\ pc = "done" /\ boxes # <<>>
    /\ \E i \in 0..(Len(boxes) - 1) : TextCells(i) # {}
    /\ \E i \in 1..Len(returned) : \E c \in PolyCells(returned[i]) : c[2] = 0

(***************************************************************************)
(* C13: render with no block.                                              *)
(***************************************************************************)
\* C13: with an empty block list render goes from its entry straight to its
\* return, the matrix it returns is empty, no CanvasSpace and no canvas is
\* built and no edge is partitioned or routed, whatever the edges and options
C13_EmptyBlocksEmptyMatrix ==
    boxes = <<>> =>
        /\ pc \in {"render", "done"}
        /\ output = <<>>
        /\ cs = NoCanvasSpace /\ canvas = <<>> /\ work = <<>>
        /\ short_edges = <<>> /\ edges = <<>>
        /\ AllPoly = <<>> /\ AllInfo = <<>> /\ returned = <<>>
        /\ attempts = <<>> /\ tweaks = 0

\* render returned for an empty block list given edges and tweaks to make
C13_EmptyBlocksWithEdges ==
    /\ pc = "done" /\ boxes = <<>>
    /\ Len(input_edges) > 1 /\ config.max_tweaks > 0

(***************************************************************************)
(* C14: the sizing rule of CanvasSpace::new.                               *)
(***************************************************************************)
\* the blocks of a column and of a row, as offsets from the least ones
InColumn(c) == {i \in 1..Len(boxes) : boxes[i].column - cs.min_column = c}
InRow(r) == {i \in 1..Len(boxes) : boxes[i].row - cs.min_row = r}
BoxWidth(i) == 2 + boxes[i].text_width + 2 * config.padding
BoxHeight(i) == 2 + boxes[i].text_height + 2 * config.padding
LastColumn == SetMax({boxes[i].column : i \in 1..Len(boxes)}) - cs.min_column
LastRow == SetMax({boxes[i].row : i \in 1..Len(boxes)}) - cs.min_row

\* C14: the width of a column is the greatest 2 + text_width + 2 * padding of
\* its blocks, and 0 if it has none, the height of a row likewise; the first
\* column starts at hmargin, every other one at the previous origin plus the
\* previous width plus hmargin, the canvas is as wide as the last origin
\* plus the last width plus hmargin, and the same holds of the rows with
\* vmargin
C14_SizingRule ==
    (boxes # <<>> /\ pc # "render") =>
        /\ cs.min_column = SetMin({boxes[i].column : i \in 1..Len(boxes)})
        /\ cs.min_row = SetMin({boxes[i].row : i \in 1..Len(boxes)})
        /\ DOMAIN cs.columns_width = 0..LastColumn /\ DOMAIN cs.columns_xs = 0..LastColumn
        /\ DOMAIN cs.rows_height = 0..LastRow /\ DOMAIN cs.rows_ys = 0..LastRow
        /\ \A c \in 0..LastColumn :
               /\ \A i \in InColumn(c) : cs.columns_width[c] >= BoxWidth(i)
               /\ IF InColumn(c) = {} THEN cs.columns_width[c] = 0
                  ELSE \E i \in InColumn(c) : cs.columns_width[c] = BoxWidth(i)
               /\ cs.columns_xs[c] =
                      IF c = 0 THEN config.hmargin
                      ELSE cs.columns_xs[c - 1] + cs.columns_width[c - 1] + config.hmargin
        /\ \A r \in 0..LastRow :
               /\ \A i \in InRow(r) : cs.rows_height[r] >= BoxHeight(i)
               /\ IF InRow(r) = {} THEN cs.rows_height[r] = 0
                  ELSE \E i \in InRow(r) : cs.rows_height[r] = BoxHeight(i)
               /\ cs.rows_ys[r] =
                      IF r = 0 THEN config.vmargin
                      ELSE cs.rows_ys[r - 1] + cs.rows_height[r - 1] + config.vmargin
        /\ cs.canvas_width =
               cs.columns_xs[LastColumn] + cs.columns_width[LastColumn] + config.hmargin
        /\ cs.canvas_height =
               cs.rows_ys[LastRow] + cs.rows_height[LastRow] + config.vmargin

\* a CanvasSpace was built with padding for a layout with a row without
\* blocks and a column whose blocks differ in width
C14_MixedSizes ==
    /\ pc = "find_edges" /\ config.padding > 0
    /\ \E r \in 0..LastRow : InRow(r) = {} /\ cs.rows_height[r] = 0
    /\ \E c \in 0..LastColumn : \E i, j \in InColumn(c) : BoxWidth(i) < BoxWidth(j)

(***************************************************************************)
(* C15, C16, C17: the anchors closest_block_points gives to two blocks.    *)
(***************************************************************************)
\* the grid position of the block of index i (0-based, as in the edges) and
\* the pairs of blocks at different positions
Pos(i) == <<boxes[i + 1].row, boxes[i + 1].column>>
Pairs == {e \in (0..(Len(boxes) - 1)) \X (0..(Len(boxes) - 1)) : Pos(e[1]) # Pos(e[2])}
Anchors(e) == closest_block_points(cs, Pos(e[1]), Pos(e[2]))

\* the sides of a rectangle <<x, y, w, h>>
Left(r) == r[1]
Right(r) == r[1] + r[3] - 1
Top(r) == r[2]
Bottom(r) == r[2] + r[4] - 1
\* m is a middle cell of the len cells from lo on: as many cells before it
\* as after it, or one more
IsMiddle(m, lo, len) ==
    /\ m \in lo..(lo + len - 1)
    /\ (m - lo) - (lo + len - 1 - m) \in {0, 1}
MidX(r) == CHOOSE m \in Left(r)..Right(r) : IsMiddle(m, r[1], r[3])
MidY(r) == CHOOSE m \in Top(r)..Bottom(r) : IsMiddle(m, r[2], r[4])
SameRow(e) == Pos(e[1])[1] = Pos(e[2])[1]
SameColumn(e) == Pos(e[1])[2] = Pos(e[2])[2]

\* C15: for two blocks of one row, or of one column, with no block between
\* them, the two anchors are the middles of the two borders that face each
\* other, both on the centerline of the row or column, and the anchors asked
\* for from the destination to the source are the same two points swapped
C15_FacingMidpoints ==
    (boxes # <<>> /\ pc # "render") =>
        \A e \in Pairs : Facing(e) =>
            /\ SameRow(e) =>
                   /\ Anchors(e)[1] =
                          <<IF Pos(e[1])[2] < Pos(e[2])[2] THEN Right(Rect(e[1]))
                            ELSE Left(Rect(e[1])), MidY(Rect(e[1]))>>
                   /\ Anchors(e)[2] =
                          <<IF Pos(e[1])[2] < Pos(e[2])[2] THEN Left(Rect(e[2]))
                            ELSE Right(Rect(e[2])), MidY(Rect(e[2]))>>
                   /\ Anchors(e)[1][2] = Anchors(e)[2][2]
            /\ SameColumn(e) =>
                   /\ Anchors(e)[1] =
                          <<MidX(Rect(e[1])),
                            IF Pos(e[1])[1] < Pos(e[2])[1] THEN Bottom(Rect(e[1]))
                            ELSE Top(Rect(e[1]))>>
                   /\ Anchors(e)[2] =
                          <<MidX(Rect(e[2])),
                            IF Pos(e[1])[1] < Pos(e[2])[1] THEN Top(Rect(e[2]))
                            ELSE Bottom(Rect(e[2]))>>
                   /\ Anchors(e)[1][1] = Anchors(e)[2][1]
            /\ Anchors(<<e[2], e[1]>>) = <<Anchors(e)[2], Anchors(e)[1]>>

\* an edge between two facing blocks of a column, the source below, was
\* routed between these anchors and had no other pair of anchors to try
C15_FacingColumnRouted ==
    \E i \in 1..Len(AllInfo) :
        /\ AllInfo[i].edge \in Pairs /\ Facing(AllInfo[i].edge)
        /\ SameColumn(AllInfo[i].edge)
        /\ Pos(AllInfo[i].edge[1])[1] > Pos(AllInfo[i].edge[2])[1]
        /\ ~AllInfo[i].has_alternative
        /\ <<AllInfo[i].src, AllInfo[i].dst>> = Anchors(AllInfo[i].edge)

\* C16: with a block between the two ends, on one row both anchors are on
\* the vertical centerlines of their blocks, on the top border if c0 < c1
\* and on the bottom border otherwise; on one column both are on the
\* horizontal centerlines, on the right border if r0 < r1 and on the left
\* border otherwise
C16_DetourAnchors ==
    (boxes # <<>> /\ pc # "render") =>
        \A e \in Pairs : ~Facing(e) =>
            /\ SameRow(e) =>
                   /\ Anchors(e)[1] =
                          <<MidX(Rect(e[1])),
                            IF Pos(e[1])[2] < Pos(e[2])[2] THEN Top(Rect(e[1]))
                            ELSE Bottom(Rect(e[1]))>>
                   /\ Anchors(e)[2] = <<MidX(Rect(e[2])), Anchors(e)[1][2]>>
            /\ SameColumn(e) =>
                   /\ Anchors(e)[1] =
                          <<IF Pos(e[1])[1] < Pos(e[2])[1] THEN Right(Rect(e[1]))
                            ELSE Left(Rect(e[1])), MidY(Rect(e[1]))>>
                   /\ Anchors(e)[2] = <<Anchors(e)[1][1], MidY(Rect(e[2]))>>

\* an edge down a column with a block between its ends was routed from the
\* right border of its source to the right border of its destination
C16_ColumnDetourRouted ==
    \E i \in 1..Len(AllInfo) :
        /\ AllInfo[i].edge \in Pairs /\ ~Facing(AllInfo[i].edge)
        /\ SameColumn(AllInfo[i].edge)
        /\ <<AllInfo[i].src, AllInfo[i].dst>> = Anchors(AllInfo[i].edge)
        /\ AllInfo[i].src[1] = Right(Rect(AllInfo[i].edge[1]))
        /\ AllInfo[i].dst[1] = Right(Rect(AllInfo[i].edge[2]))

\* C17: for two blocks that differ in row and in column, the source anchor
\* is the horizontal middle of the source's bottom border if r0 < r1 and of
\* its top border otherwise, and the destination anchor is the vertical
\* middle of the destination's left border if c0 < c1 and of its right
\* border otherwise
C17_DiagonalAnchors ==
    (boxes # <<>> /\ pc # "render") =>
        \A e \in Pairs : (~SameRow(e) /\ ~SameColumn(e)) =>
            /\ Anchors(e)[1] =
                   <<MidX(Rect(e[1])),
                     IF Pos(e[1])[1] < Pos(e[2])[1] THEN Bottom(Rect(e[1]))
                     ELSE Top(Rect(e[1]))>>
            /\ Anchors(e)[2] =
                   <<IF Pos(e[1])[2] < Pos(e[2])[2] THEN Left(Rect(e[2]))
                     ELSE Right(Rect(e[2])), MidY(Rect(e[2]))>>

\* an edge up and to the left was routed, not reversed, from the top border
\* of its source to the right border of its destination
C17_DiagonalRouted ==
    \E i \in 1..Len(AllInfo) :
        /\ Pos(AllInfo[i].edge[1])[1] > Pos(AllInfo[i].edge[2])[1]
        /\ Pos(AllInfo[i].edge[1])[2] > Pos(AllInfo[i].edge[2])[2]
        /\ ~AllInfo[i].reversed
        /\ <<AllInfo[i].src, AllInfo[i].dst>> = Anchors(AllInfo[i].edge)
        /\ AllInfo[i].src[2] = Top(Rect(AllInfo[i].edge[1]))
        /\ AllInfo[i].dst[1] = Right(Rect(AllInfo[i].edge[2]))

(***************************************************************************)
(* C18: the order of the scores.                                           *)
(***************************************************************************)
\* the scores with small fields, and with them the scores of the incumbent,
\* of the last retry and of every routing the tweak loop can be dealt
Scores ==
    [path_len : 0..MaxField, turns : 0..MaxField, intersections : 0..MaxField]
        \cup {best_score}
        \cup (IF last_try.made THEN {last_try.score, last_try.before} ELSE {})
        \cup {attempts[o].score : o \in DOMAIN attempts}

\* C18: once the tweak loop has compared two scores, a score with fewer
\* intersections is smaller whatever its turns and length, with as many
\* intersections one with fewer turns is smaller whatever its length, the
\* order is the lexicographic one on (intersections, turns, path_len), of two
\* scores exactly one is smaller unless they are equal, and <= is < or =
C18_LexicographicTotalOrder ==
    (pc = "tweak" /\ last_try.made) =>
        \A a, b \in Scores :
            /\ a.intersections < b.intersections => ScoreLess(a, b)
            /\ (a.intersections = b.intersections /\ a.turns < b.turns) => ScoreLess(a, b)
            /\ ScoreLess(a, b) <=> LexLess(Triple(a), Triple(b))
            /\ (a = b) <=> (~ScoreLess(a, b) /\ ~ScoreLess(b, a))
            /\ ~(ScoreLess(a, b) /\ ScoreLess(b, a))
            /\ ScoreLeq(a, b) <=> ~ScoreLess(b, a)

\* a retry with fewer intersections but more turns and a longer path than
\* the incumbent was compared with it and replaced it
C18_FewerIntersectionsWon ==
    /\ pc = "tweak" /\ last_try.made
    /\ last_try.score.intersections < last_try.before.intersections
    /\ last_try.score.turns > last_try.before.turns
    /\ last_try.score.path_len > last_try.before.path_len
    /\ best_score = last_try.score

(***************************************************************************)
(* C19: the padding symbol '@' in the search.                              *)
(***************************************************************************)
Dist(a, b) == Abs(a[1] - b[1]) + Abs(a[2] - b[2])
\* the cells of the routing canvas that hold the padding symbol
PaddingCells ==
    {c \in (0..(cs.canvas_width - 1)) \X (0..(cs.canvas_height - 1)) : work[c[2]][c[1]] = "@"}
\* the pairs of anchors connect_edges searches between for the input edges
SearchedAnchors ==
    UNION {{closest_block_points(cs, Pos(input_edges[k][1]), Pos(input_edges[k][2])),
            closest_block_points(cs, Pos(input_edges[k][2]), Pos(input_edges[k][1]))} :
           k \in 1..Len(input_edges)}
\* the cells of the polylines routed before the i-th one
EarlierCells(i) == UNION {PolyCells(AllPoly[j]) : j \in 1..(i - 1)}
\* the cells of the i-th polyline other than its two anchors
InnerCells(i) == PolyCells(AllPoly[i]) \ {AllInfo[i].src, AllInfo[i].dst}

\* C19 as stated: push_node admits a step onto a '@' cell in the pass without
\* intersections and in the pass with them, and the step adds one to the
\* intersections of the score
C19_PaddingAdmittedAndPenalized ==
    (boxes # <<>> /\ work # <<>>) =>
        \A a \in SearchedAnchors : \A c \in PaddingCells :
            /\ admissible(work, a[1], a[2], FALSE, c[1], c[2])
            /\ admissible(work, a[1], a[2], TRUE, c[1], c[2])
            /\ step_score(work, a[1], a[2], ScoreNew, <<>>, c[1], c[2]).intersections = 1

\* C19 amended: push_node admits a step onto a '@' cell in the pass with
\* intersections; in the pass without them it admits it only at distance 1
\* from the source or the destination; the step never adds to the
\* intersections.  So every polyline found without intersections keeps off
\* the '@' cells further than 1 from its anchors, and the intersections of a
\* polyline's score are the cells it shares with the polylines routed before
\* it, whatever '@' cells it passes
C19_PaddingOnlyBarsStrictPass ==
    (boxes # <<>> /\ work # <<>>) =>
        /\ \A a \in SearchedAnchors : \A c \in PaddingCells :
               /\ admissible(work, a[1], a[2], TRUE, c[1], c[2])
               /\ admissible(work, a[1], a[2], FALSE, c[1], c[2])
                      <=> (Dist(c, a[1]) <= 1 \/ Dist(c, a[2]) <= 1)
               /\ step_score(work, a[1], a[2], ScoreNew, <<>>, c[1], c[2]).intersections = 0
        /\ \A i \in 1..Len(AllPoly) :
               /\ ~AllInfo[i].allow_intersections =>
                      \A c \in InnerCells(i) \ EarlierCells(i) :
                          obstacle_map(canvas, cs, boxes)[c[2]][c[1]] = "@" =>
                              (Dist(c, AllInfo[i].src) <= 1 \/ Dist(c, AllInfo[i].dst) <= 1)
               /\ AllInfo[i].score.intersections =
                      Cardinality(InnerCells(i) \cap EarlierCells(i))

\* a polyline found with intersections allowed runs over a '@' cell further
\* than 1 from both its anchors, and its score counts as intersections only
\* the cells it shares with the polylines routed before it
C19_PaddingCrossedUnpenalized ==
    /\ boxes # <<>> /\ pc = "draw"
    /\ \E i \in 1..Len(AllPoly) :
           /\ AllInfo[i].allow_intersections
           /\ \E c \in InnerCells(i) \ EarlierCells(i) :
                  /\ obstacle_map(canvas, cs, boxes)[c[2]][c[1]] = "@"
                  /\ Dist(c, AllInfo[i].src) > 1 /\ Dist(c, AllInfo[i].dst) > 1
           /\ AllInfo[i].score.intersections =
                  Cardinality(InnerCells(i) \cap EarlierCells(i))

(***************************************************************************)
(* C20: polylines and the cells next to the blocks.                        *)
(***************************************************************************)
Neighbours(c) == {<<c[1] - 1, c[2]>>, <<c[1] + 1, c[2]>>, <<c[1], c[2] - 1>>, <<c[1], c[2] + 1>>}
InSomeBlock(c) == \E i \in 0..(Len(boxes) - 1) : InRect(c, Rect(i))
\* c is outside the blocks and left, right, above or below a border cell
NextToBlock(c) ==
    /\ ~InSomeBlock(c)
    /\ \E n \in Neighbours(c) : \E i \in 0..(Len(boxes) - 1) : OnBorder(n, Rect(i))
\* the cells of the i-th polyline next to a block, other than the cells
\* immediately outside its two anchors
Hugging(i) ==
    {c \in PolyCells(AllPoly[i]) :
        /\ NextToBlock(c)
        /\ c \notin Neighbours(AllInfo[i].src) \cup Neighbours(AllInfo[i].dst)}

\* C20 as stated: with hmargin > 2 and vmargin > 2 no routed polyline has a
\* cell next to a block border other than the cells immediately outside its
\* two anchors, whichever pass found its path
C20_NoPolylineNextToBlock ==
    (boxes # <<>> /\ config.hmargin > 2 /\ config.vmargin > 2) =>
        \A i \in 1..Len(AllPoly) : Hugging(i) = {}

\* C20 amended: with hmargin > 2 and vmargin > 2 a polyline found in the pass
\* without intersections has no cell next to a block border other than the
\* cells immediately outside its two anchors
C20_StrictPassKeepsOff ==
    (boxes # <<>> /\ config.hmargin > 2 /\ config.vmargin > 2) =>
        \A i \in 1..Len(AllPoly) : ~AllInfo[i].allow_intersections => Hugging(i) = {}

\* with both margins above 2, a diagonal edge was routed without
\* intersections after another edge and leaves both its blocks through the
\* cells outside its anchors
C20_DiagonalKeepsOff ==
    /\ boxes # <<>> /\ config.hmargin > 2 /\ config.vmargin > 2 /\ pc = "draw"
    /\ \E i \in 2..Len(AllPoly) :
           /\ ~AllInfo[i].allow_intersections
           /\ ~SameRow(AllInfo[i].edge) /\ ~SameColumn(AllInfo[i].edge)
           /\ Hugging(i) = {}
           /\ \E c \in PolyCells(AllPoly[i]) : NextToBlock(c) /\ c \in Neighbours(AllInfo[i].src)
           /\ \E c \in PolyCells(AllPoly[i]) : NextToBlock(c) /\ c \in Neighbours(AllInfo[i].dst)

(***************************************************************************)
(* C21: the path of shortest_path against the least score of any path.     *)
(***************************************************************************)
\* The least score of a path from a to b over the cells push_node admits on
\* the canvas cv, by relaxation over the pairs of a cell and the direction of
\* the step that entered it ("" at a, before any step).  A step costs what
\* push_node adds: an intersection on a cell that is not blank, '@', a or b,
\* a turn when its direction differs from the previous one, and 1 of
\* length.  Scores are weighed as intersections * big^2 + turns * big +
\* length, with `big` above the length of any path without a repeated pair.
OptBig(cv) == 2 + 2 * Cardinality(DOMAIN cv) * Cardinality(DOMAIN cv[0])
OptNodes(cv, a, b, allow) ==
    {<<a[1], a[2], "">>} \cup
    {n \in (DOMAIN cv[0]) \X (DOMAIN cv) \X {"H", "V"} :
        admissible(cv, a, b, allow, n[1], n[2])}
OptStep(cv, a, b, n, m) ==
    (IF cv[m[2]][m[1]] \notin {" ", "@"} /\ <<m[1], m[2]>> \notin {a, b}
     THEN OptBig(cv) * OptBig(cv) ELSE 0)
    + (IF n[3] = m[3] THEN 0 ELSE OptBig(cv)) + 1
OptPreds(nodes, m) ==
    (IF m[3] = "H" THEN {m[1] - 1, m[1] + 1} \X {m[2]} \X {"", "H", "V"}
     ELSE IF m[3] = "V" THEN {m[1]} \X {m[2] - 1, m[2] + 1} \X {"", "H", "V"}
     ELSE {}) \cap nodes
OptFar(cv) == OptBig(cv) * OptBig(cv) * OptBig(cv)

RECURSIVE OptRelax(_, _, _, _, _, _)
OptRelax(cv, a, b, nodes, dist, k) ==
    LET Again(d) == IF d = dist \/ k = 0 THEN dist
                   ELSE OptRelax(cv, a, b, nodes, d, k - 1)
    IN  Again([m \in nodes |->
                SetMin({dist[m]} \cup
                       {dist[n] + OptStep(cv, a, b, n, m) :
                           n \in {o \in OptPreds(nodes, m) : dist[o] < OptFar(cv)}})])

\* the least score as a Score, None when no path reaches b
Optimum(cv, a, b, allow) ==
    LET Decode(v) ==
            IF v >= OptFar(cv) THEN None
            ELSE Some([intersections |-> v \div (OptBig(cv) * OptBig(cv)),
                       turns |-> (v \div OptBig(cv)) % OptBig(cv),
                       path_len |-> v % OptBig(cv)], <<>>)
        Least(nodes, dist) ==
            Decode(SetMin({OptFar(cv)} \cup
                          {dist[n] : n \in {o \in nodes : <<o[1], o[2]>> = b}}))
        From(nodes) ==
            Least(nodes, OptRelax(cv, a, b, nodes,
                      [n \in nodes |-> IF n[3] = "" THEN 0 ELSE OptFar(cv)],
                      Cardinality(nodes)))
    IN  From(OptNodes(cv, a, b, allow))

\* C21: on the routing canvas, for the anchors of every input edge, in either
\* direction and in either pass, when shortest_path returns a path no path
\* over admissible cells from src to dst has a smaller score
C21_NoPathScoresLower ==
    (boxes # <<>> /\ pc = "short") =>
        \A a \in SearchedAnchors : \A allow \in BOOLEAN :
            shortest_path(cs, work, a[1], a[2], allow).some =>
                ~ScoreLess(Optimum(work, a[1], a[2], allow).score,
                           shortest_path(cs, work, a[1], a[2], allow).score)

(***************************************************************************)
(* C22, C23: the passes and the directions connect_edges tries.            *)
(***************************************************************************)
\* the canvas the i-th polyline was routed on: the obstacle map with the
\* polylines routed before it
CanvasBefore(i) ==
    draw_polylines(SubSeq(AllPoly, 1, i - 1), obstacle_map(canvas, cs, boxes))
\* the anchors from the destination to the source are not the anchors from
\* the source to the destination swapped
AnchorsDiffer(e) == Anchors(<<e[2], e[1]>>) # <<Anchors(e)[2], Anchors(e)[1]>>
\* the record of a pass says that the search in that direction found a path
FoundForward(pass) == pass.run /\ pass.path.some
FoundSwapped(pass) == pass.run /\ pass.inv.run /\ pass.inv.result.some

\* C22: for every routed edge the pass that allows intersections was run
\* only after the pass that does not had failed from the forward anchors
\* and, when the swapped anchors differ, from the swapped anchors too; when
\* a search of the pass without intersections succeeded, the other pass was
\* not run and the polyline is a path of the pass without intersections
C22_PermissiveOnlyAfterStrictFailed ==
    \A i \in 1..Len(AllInfo) :
        /\ AllInfo[i].strict.run
        /\ AllInfo[i].strict.inv.run <=> AnchorsDiffer(AllInfo[i].edge)
        /\ AllInfo[i].permissive.run =>
               /\ ~AllInfo[i].strict.path.some
               /\ AnchorsDiffer(AllInfo[i].edge) =>
                      (AllInfo[i].strict.inv.run /\ ~AllInfo[i].strict.inv.result.some)
               /\ AllInfo[i].allow_intersections
        /\ (FoundForward(AllInfo[i].strict) \/ FoundSwapped(AllInfo[i].strict)) =>
               /\ ~AllInfo[i].permissive.run
               /\ ~AllInfo[i].allow_intersections
               /\ \/ FoundForward(AllInfo[i].strict)
                     /\ AllPoly[i] = AllInfo[i].strict.path.path
                  \/ FoundSwapped(AllInfo[i].strict)
                     /\ AllPoly[i] = AllInfo[i].strict.inv.result.path
        /\ AllInfo[i].allow_intersections <=> AllInfo[i].permissive.run

\* an edge whose swapped anchors differ was routed with intersections after
\* both searches without them had failed, and before it an edge was routed
\* without them although a search with intersections allowed scores lower
C22_StrictKeptPermissiveUsed ==
    /\ pc = "draw"
    /\ \E i \in 1..Len(AllInfo) :
           /\ AnchorsDiffer(AllInfo[i].edge)
           /\ AllInfo[i].permissive.run
           /\ ~AllInfo[i].strict.path.some /\ ~AllInfo[i].strict.inv.result.some
    /\ \E i \in 1..Len(AllInfo) :
           /\ ~AllInfo[i].allow_intersections
           /\ ScoreLess(shortest_path(cs, CanvasBefore(i), AllInfo[i].src,
                                      AllInfo[i].dst, TRUE).score,
                        AllInfo[i].score)

\* the pass that gave the i-th polyline
PassOf(i) == IF AllInfo[i].allow_intersections THEN AllInfo[i].permissive
             ELSE AllInfo[i].strict

\* C23: when the swapped anchors differ from the forward ones, every pass
\* run for an edge searched from both, and the polyline is the path of the
\* smaller score of its pass, the forward one when the scores tie, the one
\* that was found when the other search failed; when the anchors do not
\* differ only the forward search was run and the polyline is its path
C23_BothDirectionsSmallerKept ==
    \A i \in 1..Len(AllInfo) :
        /\ AllInfo[i].anchors.p = Anchors(AllInfo[i].edge)
        /\ AllInfo[i].anchors.q = Anchors(<<AllInfo[i].edge[2], AllInfo[i].edge[1]>>)
        /\ \A pass \in {AllInfo[i].strict, AllInfo[i].permissive} :
               pass.run => (pass.inv.run <=> AnchorsDiffer(AllInfo[i].edge))
        /\ PassOf(i).run
        /\ AllInfo[i].reversed <=>
               /\ AnchorsDiffer(AllInfo[i].edge)
               /\ PassOf(i).inv.result.some
               /\ \/ ~PassOf(i).path.some
                  \/ LexLess(Triple(PassOf(i).inv.result.score),
                             Triple(PassOf(i).path.score))
        /\ IF AllInfo[i].reversed
           THEN /\ AllPoly[i] = PassOf(i).inv.result.path
                /\ AllInfo[i].score = PassOf(i).inv.result.score
                /\ <<AllInfo[i].src, AllInfo[i].dst>> = AllInfo[i].anchors.q
           ELSE /\ PassOf(i).path.some
                /\ AllPoly[i] = PassOf(i).path.path
                /\ AllInfo[i].score = PassOf(i).path.score
                /\ <<AllInfo[i].src, AllInfo[i].dst>> = AllInfo[i].anchors.p

\* of two routed edges with differing anchors one kept its forward path on
\* a tie of the two scores and the other the path from the swapped anchors,
\* whose score was smaller
C23_TieForwardSmallerSwapped ==
    /\ \E i \in 1..Len(AllInfo) :
           /\ AnchorsDiffer(AllInfo[i].edge) /\ ~AllInfo[i].reversed
           /\ PassOf(i).path.some /\ PassOf(i).inv.result.some
           /\ PassOf(i).path.score = PassOf(i).inv.result.score
    /\ \E i \in 1..Len(AllInfo) :
           /\ AllInfo[i].reversed
           /\ PassOf(i).path.some
           /\ LexLess(Triple(PassOf(i).inv.result.score), Triple(PassOf(i).path.score))

\* the edge joins two blocks next to each other on the grid
IsShort(e) == Dist(Pos(e[1]), Pos(e[2])) = 1

\* the edge is listed once, in one direction only
ListedOnce(e) ==
    Cardinality({k \in 1..Len(input_edges) :
                    input_edges[k] \in {e, <<e[2], e[1]>>}}) = 1

\* the polyline is the one segment between the middles of the borders with
\* which the two blocks of the edge face each other
StraightBetween(p, e) ==
    LET r0 == Rect(e[1])
        r1 == Rect(e[2])
    IN  /\ Len(p) = 1
        /\ IF SameRow(e)
           THEN /\ p[1].tag = "Horizontal"
                /\ p[1].at = MidY(r0) /\ p[1].at = MidY(r1)
                /\ {p[1].span[1], p[1].span[2]} =
                       IF Left(r0) < Left(r1) THEN {Right(r0), Left(r1)}
                       ELSE {Right(r1), Left(r0)}
           ELSE /\ p[1].tag = "Vertical"
                /\ p[1].at = MidX(r0) /\ p[1].at = MidX(r1)
                /\ {p[1].span[1], p[1].span[2]} =
                       IF Top(r0) < Top(r1) THEN {Bottom(r0), Top(r1)}
                       ELSE {Bottom(r1), Top(r0)}

\* C24: the edges between neighbouring blocks are routed first, in the
\* order of the input and before any other edge; each of them that is listed
\* once gets the one straight segment between the middles of the two facing
\* borders whatever the other edges and max_tweaks are; the other edges are
\* routed after them and their polylines come after theirs in the result
C24_ShortEdgesFirstAndStraight ==
    boxes # <<>> =>
        /\ pc \in {"render", "find_edges", "short"} =>
               poly = <<>> /\ poly_info = <<>>
        /\ pc \in {"long", "tweak", "draw", "done"} =>
               /\ [i \in 1..Len(short_info) |-> short_info[i].edge] =
                      SelectSeq(input_edges, IsShort)
               /\ Len(short_poly) = Len(short_info)
               /\ \A i \in 1..Len(poly_info) : ~IsShort(poly_info[i].edge)
               /\ \A i \in 1..Len(short_info) :
                      ListedOnce(short_info[i].edge) =>
                          StraightBetween(short_poly[i], short_info[i].edge)
        /\ pc \in {"draw", "done"} =>
               /\ Len(returned) = Len(input_edges)
               /\ SubSeq(returned, 1, Len(short_poly)) = short_poly

\* an edge between neighbours listed after two longer ones, with retries
\* allowed, is the first polyline of the result, one horizontal segment
C24_ShortAfterLongRoutedFirst ==
    /\ pc = "done" /\ boxes # <<>> /\ config.max_tweaks > 0
    /\ Len(input_edges) = 3
    /\ ~IsShort(input_edges[1]) /\ ~IsShort(input_edges[2])
    /\ IsShort(input_edges[3]) /\ SameRow(input_edges[3])
    /\ short_info[1].edge = input_edges[3]
    /\ StraightBetween(returned[1], input_edges[3])
    /\ tweaks > 0

\* C25: a step that shuffles the edges, routes them again or counts a retry
\* is taken in the tweak loop only, with fewer than max_tweaks retries made
\* and an incumbent that has intersections; it counts one retry, so that no
\* more than max_tweaks are ever made, none when the first routing has no
\* intersection and none after a retry gave an incumbent without any
C25_RetriesBoundedAndStopAtZero ==
    [][/\ tweaks' <= config'.max_tweaks
       /\ (tweaks' # tweaks \/ last_try' # last_try \/ (pc = "tweak" /\ edges' # edges)) =>
              /\ pc = "tweak"
              /\ tweaks < config.max_tweaks
              /\ best_score.intersections # 0
              /\ tweaks' = tweaks + 1
       /\ (pc = "tweak" /\ best_score.intersections = 0) =>
              /\ pc' = "draw"
              /\ poly' = poly /\ best_score' = best_score /\ edges' = edges
              /\ returned' = short_poly \o poly]_vars

\* the loop was left with a retry still allowed, after a retry that gave an
\* incumbent without intersections in place of one that had some
C25_LoopLeftEarly ==
    /\ pc = "draw"
    /\ tweaks > 0 /\ tweaks < config.max_tweaks
    /\ last_try.made /\ last_try.before.intersections # 0
    /\ best_score.intersections = 0 /\ last_try.score = best_score

\* C26: from the routing of the short edges to the end of find_edges the
\* working canvas is the obstacle map with the polylines of the short edges
\* and nothing else, so that every routing of the other edges starts from a
\* copy without any line of an earlier one; a retry in the order of the
\* first routing gives the score of the first routing again; the canvas of
\* render holds the blocks only until render draws the result on it
C26_AttemptsStartFresh ==
    (boxes # <<>> /\ pc \notin {"render", "panic"}) =>
        /\ pc # "done" =>
               canvas = draw_blocks(CanvasNew(cs.canvas_width, cs.canvas_height),
                                    cs, boxes)
        /\ pc \in {"long", "tweak", "draw"} =>
               /\ work = draw_polylines(short_poly, obstacle_map(canvas, cs, boxes))
               /\ \A y \in DOMAIN work : \A x \in DOMAIN work[y] :
                      work[y][x] \notin {" ", "#", "@"} =>
                          \E i \in 1..Len(short_poly) : <<x, y>> \in PolyCells(short_poly[i])
        /\ (pc \in {"tweak", "draw"} /\ last_try.made /\ tweaks = 1
              /\ last_try.order = sort_by_key(boxes, long_of(boxes, input_edges))) =>
               /\ last_try.score = last_try.before
               /\ best_score = last_try.before

\* after a first routing with intersections, the retry in the same order of
\* two edges gave the same score, and the working canvas holds the polyline
\* of a short edge but not every cell of the incumbent polylines
C26_SameOrderSameScore ==
    /\ pc = "tweak" /\ tweaks = 1 /\ last_try.made
    /\ Len(edges) >= 2 /\ short_poly # <<>>
    /\ last_try.order = sort_by_key(boxes, long_of(boxes, input_edges))
    /\ last_try.score = last_try.before
    /\ best_score.intersections # 0
    /\ \E i \in 1..Len(poly) : \E c \in PolyCells(poly[i]) : work[c[2]][c[1]] = " "

\* a path from a to b may step on the cell c of the canvas cv
Walkable(cv, a, b, allow, c) ==
    \/ c \in {a, b}
    \/ cv[c[2]][c[1]] = " "
    \/ /\ cv[c[2]][c[1]] # "#"
       /\ allow \/ Dist(c, a) <= 1 \/ Dist(c, b) <= 1

RECURSIVE Grow(_, _, _, _, _, _)
\* the cells reached from `frontier` by steps to walkable neighbours, with
\* the cells `reached` so far
Grow(cv, a, b, allow, reached, frontier) ==
    LET More(new) == Grow(cv, a, b, allow, reached \cup new, new)
    IN  IF frontier = {} THEN reached
        ELSE More({c \in UNION {Neighbours(f) : f \in frontier} :
                      /\ InCanvas(c) /\ c \notin reached
                      /\ Walkable(cv, a, b, allow, c)})

Reachable(cv, a, b, allow) == b \in Grow(cv, a, b, allow, {a}, {a})

\* the path is a walk from a to b over walkable cells
IsWalk(cv, a, b, allow, path) ==
    IF path = <<>> THEN a = b
    ELSE /\ a \in Cells(path[1])
         /\ b \in Cells(path[Len(path)])
         /\ \A k \in 1..(Len(path) - 1) : Cells(path[k]) \cap Cells(path[k + 1]) # {}
         /\ \A c \in PolyCells(path) : InCanvas(c) /\ Walkable(cv, a, b, allow, c)

\* the searches run for the i-th routed edge: the anchors, the pass and
\* what shortest_path returned
SearchesOf(i) ==
    LET Of(pass, allow) ==
            IF ~pass.run THEN {}
            ELSE {[a |-> AllInfo[i].anchors.p[1], b |-> AllInfo[i].anchors.p[2],
                   allow |-> allow, res |-> pass.path]}
                 \cup (IF pass.inv.run
                       THEN {[a |-> AllInfo[i].anchors.q[1], b |-> AllInfo[i].anchors.q[2],
                              allow |-> allow, res |-> pass.inv.result]}
                       ELSE {})
    IN  Of(AllInfo[i].strict, FALSE) \cup Of(AllInfo[i].permissive, TRUE)

\* C27: every search run for a routed edge ended, expanded no cell twice
\* (as many expansions as cells seen, never dst, which ends the search when
\* it is popped), and returned a walk from src to dst over admissible cells
\* when dst can be reached over such cells and None when it cannot
C27_SearchEndsOncePerCell ==
    (boxes # <<>> /\ pc \in {"long", "tweak"}) =>
        \A i \in 1..Len(AllInfo) :
            LET Check(cv) ==
                    \A s \in SearchesOf(i) :
                        /\ s.res.ended
                        /\ s.res.expansions = s.res.seen_cells
                        /\ s.res.expansions <= cs.canvas_width * cs.canvas_height
                        /\ ~s.res.dst_seen
                        /\ IF s.res.some
                           THEN IsWalk(cv, s.a, s.b, s.allow, s.res.path)
                           ELSE ~Reachable(cv, s.a, s.b, s.allow)
            IN  Check(CanvasBefore(i))

\* for one routed edge a search that may not cross lines expanded several
\* cells and returned None, and a search that may returned a path
C27_FailedAndFound ==
    /\ pc = "tweak" /\ boxes # <<>>
    /\ \E i \in 1..Len(AllInfo) :
           /\ \E s \in SearchesOf(i) :
                  ~s.allow /\ ~s.res.some /\ s.res.ended /\ s.res.expansions > 4
           /\ \E s \in SearchesOf(i) :
                  s.allow /\ s.res.some /\ Len(s.res.path) > 1

====
